---- MODULE Spec2Model ----
(***************************************************************************)
(* Model of kho/nlp_basic, package treebank: the bracketed-treebank        *)
(* tokenizer and recursive-descent parser (Parser, ParseAll, ParseString), *)
(* the ParseTree renderer (String / dfsString) and the Topology forest     *)
(* (AddNode, AppendChild, Topsort, Disconnect, Components).                *)
(*                                                                         *)
(* Bytes are one-character strings, byte slices and Go strings are         *)
(* sequences of bytes, NodeIds are integers with NoNodeId = -1, Go slices  *)
(* are sequences (index i of the code is index i+1 here) and errors are    *)
(* the names of the Go error values ("nil" for no error).                  *)
(***************************************************************************)
EXTENDS Integers, Sequences, FiniteSets, TLC

(***************************************************************************)
(* Bounds of the model.                                                    *)
(***************************************************************************)
\* longest input enumerated byte by byte
MaxRaw == 4
\* most nodes of a tree in a generated bracketed unit
MaxNodes == 5
\* most well-formed units in front of the last unit of an input
MaxUnits == 2
\* most nodes of a Topology built with AddNode
MaxTopoNodes == 4
\* most AppendChild calls on one Topology
MaxEdges == 4
\* most AppendChild calls made on the two Topology types side by side
MaxAppends == 3

\* Parser.Next is called until every unit is read and once more
MaxCalls == MaxUnits + 2

(***************************************************************************)
(* Program constants.                                                      *)
(***************************************************************************)
NoNodeId == -1

kOpen == "kOpen"
kClose == "kClose"
kWord == "kWord"

ErrNil == "nil"
EOF == "EOF"
ParseError == "ParseError"
NoCloseParen == "NoCloseParen"
NoOpenParen == "NoOpenParen"
NoCategory == "NoCategory"
NoWordOrOpenParen == "NoWordOrOpenParen"
ResidualInput == "ResidualInput"

\* an error of the byte source other than io.EOF
IOFault == "IOFault"

Space == {" ", "\t", "\n"}
Paren == {"(", ")"}

(***************************************************************************)
(* Small helpers on sequences.                                             *)
(***************************************************************************)
Range(s) == {s[i] : i \in 1..Len(s)}

Last(s) == s[Len(s)]

Min(S) == CHOOSE x \in S : \A y \in S : x <= y

Max(S) == CHOOSE x \in S : \A y \in S : y <= x

RECURSIVE Flatten(_)
Flatten(ss) == IF ss = <<>> THEN <<>> ELSE Head(ss) \o Flatten(Tail(ss))

(***************************************************************************)
(* Topology as the parser sees it (root, parent, children) and ParseTree.  *)
(***************************************************************************)
NewEmptyTopology == [root |-> NoNodeId, parent |-> <<>>, children |-> <<>>]

ONewRootedTopology ==
    [root |-> 0, parent |-> <<NoNodeId>>, children |-> <<(<<>>)>>]

NumNodes(t) == Len(t.children)

\* AddNode returns the new id; the topology after it is AddNode(t)
AddNode(t) ==
    [t EXCEPT !.parent = Append(@, NoNodeId), !.children = Append(@, <<>>)]

SetRoot(t, r) == [t EXCEPT !.root = r, !.parent[r + 1] = NoNodeId]

\* the three outcomes of the checked AppendChild: panics leave t unchanged
AppendChildPanicsParentOnly(t, a, b) == t.parent[b + 1] # NoNodeId

AppendChildPanics(t, a, b) == t.parent[b + 1] # NoNodeId \/ b = t.root

AppendChild(t, a, b) ==
    [t EXCEPT !.children[a + 1] = Append(@, b), !.parent[b + 1] = a]

Leaf(t, n) == Len(t.children[n + 1]) = 0

\* &ParseTree{NewEmptyTopology(), make([]string, 0, 16)}
NewParseTree == [Topology |-> NewEmptyTopology, Label |-> <<>>]

(***************************************************************************)
(* The byte source (an io.ByteScanner over `in`) and the Parser fields.    *)
(* `end` is the error ReadByte returns once the bytes are used up.         *)
(***************************************************************************)
NewParser(in, end) ==
    [in |-> in, end |-> end, pos |-> 0,
     peek |-> FALSE, token |-> <<>>, kind |-> kOpen, err |-> ErrNil]

\* index of the first byte at or after i that is not in S (Len+1 if none)
RECURSIVE SkipWhile(_, _, _)
SkipWhile(in, i, S) ==
    IF i <= Len(in) /\ in[i] \in S THEN SkipWhile(in, i + 1, S) ELSE i

\* The(S) is the member of the one-element set S.  A value that is used
\* more than once is bound as  The({f(x) : x \in {e}}),  which evaluates e
\* once.
The(S) == CHOOSE x \in S : TRUE

\* a result of nextToken or peekToken
Tok(p, token, kind, err) == [p |-> p, token |-> token, kind |-> kind, err |-> err]

\* readToken that does not unread the byte that ends a word
readTokenNoUnread(p, i) ==
    IF p.in[i] = "("
    THEN Tok([p EXCEPT !.pos = i, !.token = <<"(">>], <<"(">>, kOpen, ErrNil)
    ELSE IF p.in[i] = ")"
    THEN Tok([p EXCEPT !.pos = i, !.token = <<")">>], <<")">>, kClose, ErrNil)
    ELSE The({Tok([p EXCEPT !.pos = IF j <= Len(p.in) THEN j ELSE Len(p.in),
                            !.token = SubSeq(p.in, i, j - 1)],
                  SubSeq(p.in, i, j - 1), kWord, ErrNil) :
              j \in {SkipWhile(p.in, i + 1, Range(p.in) \ (Space \cup Paren))}})

\* the read succeeded with byte in[i]
readToken(p, i) ==
    IF p.in[i] = "("
    THEN Tok([p EXCEPT !.pos = i, !.token = <<"(">>], <<"(">>, kOpen, ErrNil)
    ELSE IF p.in[i] = ")"
    THEN Tok([p EXCEPT !.pos = i, !.token = <<")">>], <<")">>, kClose, ErrNil)
    ELSE \* a word runs until white space or a parenthesis, which is unread;
         \* at the end of the bytes the read error is postponed
         The({Tok([p EXCEPT !.pos = IF j <= Len(p.in) THEN j - 1 ELSE Len(p.in),
                            !.token = SubSeq(p.in, i, j - 1)],
                  SubSeq(p.in, i, j - 1), kWord, ErrNil) :
              j \in {SkipWhile(p.in, i + 1, Range(p.in) \ (Space \cup Paren))}})

\* nextToken: [p |-> parser after, token, kind, err]
nextToken(p) ==
    IF p.peek
    THEN Tok([p EXCEPT !.peek = FALSE], p.token, p.kind, p.err)
    ELSE The({IF i > Len(p.in)
              THEN \* the read failed: nil token, zero kind, the source's error
                   Tok([p EXCEPT !.pos = Len(p.in)], <<>>, kOpen, p.end)
              ELSE readToken(p, i) :
              i \in {SkipWhile(p.in, p.pos + 1, Space)}})

\* peekToken that reads a token at every call
peekTokenAgain(p) ==
    The({Tok([r.p EXCEPT !.peek = TRUE, !.token = r.token,
                         !.kind = r.kind, !.err = r.err],
             r.token, r.kind, r.err) :
         r \in {nextToken([p EXCEPT !.peek = FALSE])}})

\* peekToken: [p |-> parser after, token, kind, err]
peekToken(p) ==
    IF ~p.peek
    THEN The({Tok([r.p EXCEPT !.peek = TRUE, !.token = r.token,
                              !.kind = r.kind, !.err = r.err],
                  r.token, r.kind, r.err) : r \in {nextToken(p)}})
    ELSE Tok(p, p.token, p.kind, p.err)

(***************************************************************************)
(* The recursive-descent parser.  Every parse* operator takes the parser   *)
(* p and the tree t under construction and yields both as they are left,   *)
(* with the created node(s) and the error.                                 *)
(***************************************************************************)
Panic == "panic"

\* a result of parseS, parseTree, parseNode
Res(p, t, node, err) == [p |-> p, t |-> t, node |-> node, err |-> err]

\* a result of parseChildren
ResC(p, t, children, err) ==
    [p |-> p, t |-> t, children |-> children, err |-> err]

\* node := tree.Topology.AddNode(); tree.Label = append(tree.Label, token)
addLabelled(t, token) ==
    [Topology |-> AddNode(t.Topology), Label |-> Append(t.Label, token)]

\* tree.Topology.children[node] = children, and the children's parent
adopt(t, node, children) ==
    [t EXCEPT !.Topology.children[node + 1] = children,
              !.Topology.parent = [c \in DOMAIN @ |->
                                     IF c - 1 \in Range(children)
                                     THEN node ELSE @[c]]]

RECURSIVE parseNode(_, _), parseChildren(_, _), parseChildrenRest(_, _, _)

\* parseNodeRest with a category's missing child reported as NoCategory
parseNodeRestNoCategory(r2, t1, node) ==
    IF r2.err # ErrNil \/ r2.kind = kClose
    THEN Res(r2.p, t1, NoNodeId, NoCategory)
    ELSE IF r2.kind = kWord
    THEN The({Res(r3.p,
                  [Topology |-> AppendChild(AddNode(t1.Topology), node, node + 1),
                   Label |-> Append(t1.Label, r3.token)],
                  node, ErrNil) :
              r3 \in {nextToken(r2.p)}})
    ELSE The({IF rc.err # ErrNil
              THEN Res(rc.p, rc.t, NoNodeId, rc.err)
              ELSE Res(rc.p, adopt(rc.t, node, rc.children), node, ErrNil) :
              rc \in {parseChildren(r2.p, t1)}})

\* the pre-terminal case of parseNode: r3 is the word, t2 the tree with the
\* leaf added
preTerminal(r3, t2, node, child) ==
    IF AppendChildPanics(t2.Topology, node, child)
    THEN Res(r3.p, t2, NoNodeId, Panic)
    ELSE Res(r3.p, [t2 EXCEPT !.Topology = AppendChild(@, node, child)],
             node, ErrNil)

\* parseNode after the category r1 was read and its node added to t1, with
\* the token r2 peeked
parseNodeRest(r2, t1, node) ==
    IF r2.err # ErrNil \/ r2.kind = kClose
    THEN Res(r2.p, t1, NoNodeId, NoWordOrOpenParen)
    ELSE IF r2.kind = kWord
    THEN The({preTerminal(r3, addLabelled(t1, r3.token), node, node + 1) :
              r3 \in {nextToken(r2.p)}})
    ELSE IF r2.kind = kOpen
    THEN The({IF rc.err # ErrNil
              THEN Res(rc.p, rc.t, NoNodeId, rc.err)
              ELSE Res(rc.p, adopt(rc.t, node, rc.children), node, ErrNil) :
              rc \in {parseChildren(r2.p, t1)}})
    ELSE Res(r2.p, t1, NoNodeId, ParseError)

\* Node -> Label { Label | Children }
parseNode(p, t) ==
    The({IF r1.err # ErrNil \/ r1.kind # kWord
         THEN Res(r1.p, t, NoNodeId, NoCategory)
         ELSE The({parseNodeRest(r2, t1, NumNodes(t.Topology)) :
                   r2 \in {peekToken(r1.p)},
                   t1 \in {addLabelled(t, r1.token)}}) :
         r1 \in {nextToken(p)}})

\* closeChild with the new child put in front of its elder siblings
closeChildInFront(r, children) ==
    IF r.err # ErrNil
    THEN ResC(r.p, r.t, <<>>, r.err)
    ELSE The({IF rc.err # ErrNil \/ rc.kind # kClose
              THEN ResC(rc.p, r.t, <<>>, NoCloseParen)
              ELSE parseChildrenRest(rc.p, r.t, <<r.node>> \o children) :
              rc \in {nextToken(r.p)}})

\* the ')' after the child r (a parseNode result), then the rest of the
\* children
closeChild(r, children) ==
    IF r.err # ErrNil
    THEN ResC(r.p, r.t, <<>>, r.err)
    ELSE The({IF rc.err # ErrNil \/ rc.kind # kClose
              THEN ResC(rc.p, r.t, <<>>, NoCloseParen)
              ELSE parseChildrenRest(rc.p, r.t, Append(children, r.node)) :
              rc \in {nextToken(r.p)}})

\* Children -> '(' Node ')' { eps | Children }: the first node
parseChildren(p, t) ==
    The({IF r1.err # ErrNil \/ r1.kind # kOpen
         THEN ResC(r1.p, t, <<>>, NoOpenParen)
         ELSE The({closeChild(r2, <<>>) : r2 \in {parseNode(r1.p, t)}}) :
         r1 \in {nextToken(p)}})

\* the loop of parseChildren over the rest of the children
parseChildrenRest(p, t, children) ==
    The({IF ~(rk.err = ErrNil /\ rk.kind = kOpen)
         THEN ResC(rk.p, t, children, ErrNil)
         ELSE The({closeChild(r5, children) :
                   r5 \in {parseNode(nextToken(rk.p).p, t)}}) :
         rk \in {peekToken(p)}})

\* parseTreeRest without the empty-tree case
parseTreeRestNoEmpty(r2, t) ==
    The({IF r3.err # ErrNil
         THEN Res(r3.p, r3.t, NoNodeId, r3.err)
         ELSE The({IF r4.err # ErrNil \/ r4.kind # kClose
                   THEN Res(r4.p, r3.t, NoNodeId, NoCloseParen)
                   ELSE Res(r4.p, r3.t, r3.node, ErrNil) :
                   r4 \in {nextToken(r3.p)}}) :
         r3 \in {parseNode(r2.p, t)}})

\* parseTree after its '(' with the token r2 peeked
parseTreeRest(r2, t) ==
    IF r2.err = ErrNil /\ r2.kind = kClose
    THEN Res(nextToken(r2.p).p, t, NoNodeId, ErrNil)
    ELSE The({IF r3.err # ErrNil
              THEN Res(r3.p, r3.t, NoNodeId, r3.err)
              ELSE The({IF r4.err # ErrNil \/ r4.kind # kClose
                        THEN Res(r4.p, r3.t, NoNodeId, NoCloseParen)
                        ELSE Res(r4.p, r3.t, r3.node, ErrNil) :
                        r4 \in {nextToken(r3.p)}}) :
              r3 \in {parseNode(r2.p, t)}})

\* parseTree that returns the error of its first read as it is
parseTreePassErr(p, t) ==
    The({IF r1.err # ErrNil
         THEN Res(r1.p, t, NoNodeId, r1.err)
         ELSE IF r1.kind # kOpen
         THEN Res(r1.p, t, NoNodeId, NoOpenParen)
         ELSE The({parseTreeRest(r2, t) : r2 \in {peekToken(r1.p)}}) :
         r1 \in {nextToken(p)}})

\* Tree -> '(' { ')' | Node ')' }
parseTree(p, t) ==
    The({IF r1.err # ErrNil \/ r1.kind # kOpen
         THEN Res(r1.p, t, NoNodeId, NoOpenParen)
         ELSE The({parseTreeRest(r2, t) : r2 \in {peekToken(r1.p)}}) :
         r1 \in {nextToken(p)}})

\* parseSRest that looks at the closing parenthesis without taking it
parseSRestPeek(r2) ==
    IF r2.err # ErrNil
    THEN Res(r2.p, r2.t, NoNodeId, r2.err)
    ELSE The({IF r3.err # ErrNil \/ r3.kind # kClose
              THEN Res(r3.p, r2.t, NoNodeId, NoCloseParen)
              ELSE Res(r3.p,
                       IF r2.node # NoNodeId
                       THEN [r2.t EXCEPT !.Topology = SetRoot(@, r2.node)]
                       ELSE r2.t,
                       r2.node, ErrNil) :
              r3 \in {peekToken(r2.p)}})

\* parseS after parseTree returned r2
parseSRest(r2) ==
    IF r2.err # ErrNil
    THEN Res(r2.p, r2.t, NoNodeId, r2.err)
    ELSE The({IF r3.err # ErrNil \/ r3.kind # kClose
              THEN Res(r3.p, r2.t, NoNodeId, NoCloseParen)
              ELSE Res(r3.p,
                       IF r2.node # NoNodeId
                       THEN [r2.t EXCEPT !.Topology = SetRoot(@, r2.node)]
                       ELSE r2.t,
                       r2.node, ErrNil) :
              r3 \in {nextToken(r2.p)}})

\* parseS with a failed first read reported as NoOpenParen
parseSNoEOF(p, t) ==
    The({IF r1.err # ErrNil \/ r1.kind # kOpen
         THEN Res(r1.p, t, NoNodeId, NoOpenParen)
         ELSE The({parseSRest(r2) : r2 \in {parseTree(r1.p, t)}}) :
         r1 \in {nextToken(p)}})

\* S -> '(' Tree ')'
parseS(p, t) ==
    The({IF r1.err # ErrNil
         THEN Res(r1.p, t, NoNodeId, r1.err)
         ELSE IF r1.kind # kOpen
         THEN Res(r1.p, t, NoNodeId, NoOpenParen)
         ELSE The({parseSRest(r2) : r2 \in {parseTree(r1.p, t)}}) :
         r1 \in {nextToken(p)}})

\* a *ParseTree: nil, or the tree
NilTree == [nil |-> TRUE, Topology |-> NewEmptyTopology, Label |-> <<>>]

TreeOf(t) == [nil |-> FALSE, Topology |-> t.Topology, Label |-> t.Label]

\* Parser.Next: [p |-> parser after, tree, err]
ParserNext(p) ==
    The({IF r.err # ErrNil
         THEN [p |-> r.p, tree |-> NilTree, err |-> r.err]
         ELSE [p |-> r.p, tree |-> TreeOf(r.t), err |-> ErrNil] :
         r \in {parseS(p, NewParseTree)}})

\* ParseString: one tree of a string, the rest is discarded
ParseString(in) ==
    The({[tree |-> r.tree, err |-> r.err] :
         r \in {ParserNext(NewParser(in, EOF))}})

\* ParseAll: [p |-> parser after, trees, err]
RECURSIVE ParseAllLoop(_, _)
\* ParseAllLoop that skips the empty trees
ParseAllLoopSkipEmpty(p, trees) ==
    The({IF r.err = ErrNil
         THEN ParseAllLoop(r.p, IF r.tree.Topology.root = NoNodeId
                                THEN trees ELSE Append(trees, r.tree))
         ELSE [p |-> r.p, trees |-> trees,
               err |-> IF r.err = EOF THEN ErrNil ELSE r.err] :
         r \in {ParserNext(p)}})

ParseAllLoop(p, trees) ==
    The({IF r.err = ErrNil
         THEN ParseAllLoop(r.p, Append(trees, r.tree))
         ELSE [p |-> r.p, trees |-> trees,
               err |-> IF r.err = EOF THEN ErrNil ELSE r.err] :
         r \in {ParserNext(p)}})

ParseAll(in, pos, end) ==
    ParseAllLoop([NewParser(in, end) EXCEPT !.pos = pos], <<>>)

(***************************************************************************)
(* ParseTree.String: the tree in bracketed form.                           *)
(***************************************************************************)
RECURSIVE dfsString(_, _)
\* dfsString without the space in front of each child
dfsStringNoSpace(tree, node) ==
    IF Leaf(tree.Topology, node)
    THEN tree.Label[node + 1]
    ELSE <<"(">> \o tree.Label[node + 1]
         \o Flatten([i \in 1..Len(tree.Topology.children[node + 1]) |->
                       dfsString(tree, tree.Topology.children[node + 1][i])])
         \o <<")">>

dfsString(tree, node) ==
    IF Leaf(tree.Topology, node)
    THEN tree.Label[node + 1]
    ELSE <<"(">> \o tree.Label[node + 1]
         \o Flatten([i \in 1..Len(tree.Topology.children[node + 1]) |->
                       <<" ">> \o dfsString(tree,
                                    tree.Topology.children[node + 1][i])])
         \o <<")">>

String(tree) ==
    <<"(">> \o (IF tree.Topology.root = NoNodeId
                THEN <<"(", ")">>
                ELSE dfsString(tree, tree.Topology.root))
    \o <<")">>

(***************************************************************************)
(* Topology: Root and the Children lists.  No method reads UpLink, which   *)
(* is left out.                                                            *)
(***************************************************************************)
\* the Root and Children of the topology a parser built
Topo(t) == [Root |-> t.root, Children |-> t.children]

TNumNodes(t) == Len(t.Children)

TNodes(t) == 0..(TNumNodes(t) - 1)

\* Topology.Equal: same Root and the same children lists
Equal(t, s) ==
    /\ t.Root = s.Root
    /\ TNumNodes(t) = TNumNodes(s)
    /\ \A i \in 1..TNumNodes(t) :
          /\ Len(t.Children[i]) = Len(s.Children[i])
          /\ \A j \in 1..Len(t.Children[i]) : t.Children[i][j] = s.Children[i][j]

NewRootedTopology == [Root |-> 0, Children |-> <<(<<>>)>>]

NewEmptyTopo == [Root |-> NoNodeId, Children |-> <<>>]

TAddNode(t) == [t EXCEPT !.Children = Append(@, <<>>)]

TAppendChildReroot(t, parent, child) ==
    [t EXCEPT !.Children[parent + 1] = Append(@, child),
              !.Root = IF child = @ THEN parent ELSE @]

\* the unchecked AppendChild
TAppendChild(t, parent, child) ==
    [t EXCEPT !.Children[parent + 1] = Append(@, child)]

\* dfsTraverse: st holds the traversal ns so far, the visited nodes and
\* whether "cycle in Topology" was raised; dfsKids is the loop over the
\* children of n from the i-th on
RECURSIVE dfsTraverse(_, _, _), dfsKids(_, _, _, _), dfsKidsOnPath(_, _, _, _)
dfsTraversePostOrder(t, n, st) ==
    IF st.panic THEN st
    ELSE IF n \in st.visited THEN [st EXCEPT !.panic = TRUE]
    ELSE The({[s1 EXCEPT !.ns = Append(@, n)] :
              s1 \in {dfsKids(t, n, 1, [st EXCEPT !.visited = @ \cup {n}])}})

dfsTraverse(t, n, st) ==
    IF st.panic THEN st
    ELSE IF n \in st.visited THEN [st EXCEPT !.panic = TRUE]
    ELSE dfsKids(t, n, 1, [st EXCEPT !.visited = @ \cup {n},
                                     !.ns = Append(@, n)])

dfsKidsOnPath(t, n, i, st) ==
    IF st.panic \/ i > Len(t.Children[n + 1])
    THEN [st EXCEPT !.visited = @ \ {n}]
    ELSE The({dfsKidsOnPath(t, n, i + 1, s1) :
              s1 \in {dfsTraverse(t, t.Children[n + 1][i], st)}})

dfsKids(t, n, i, st) ==
    IF st.panic \/ i > Len(t.Children[n + 1]) THEN st
    ELSE The({dfsKids(t, n, i + 1, s1) :
              s1 \in {dfsTraverse(t, t.Children[n + 1][i], st)}})

\* remap: the old-to-new mapping of the traversal newToOld and the
\* topology rebuilt in the new numbering
oldToNewOf(t, newToOld) ==
    [o \in 1..TNumNodes(t) |->
        IF o - 1 \in Range(newToOld)
        THEN (CHOOSE n \in 1..Len(newToOld) : newToOld[n] = o - 1) - 1
        ELSE NoNodeId]

remapKeepOldIds(t, newToOld) ==
    [t |-> [Root |-> IF Len(newToOld) = 0 THEN NoNodeId ELSE 0,
            Children |-> [n \in 1..Len(newToOld) |->
                            t.Children[newToOld[n] + 1]]],
     oldToNew |-> oldToNewOf(t, newToOld)]

remap(t, newToOld) ==
    The({[t |-> [Root |-> IF Len(newToOld) = 0 THEN NoNodeId ELSE 0,
                 Children |->
                    [n \in 1..Len(newToOld) |->
                       [i \in 1..Len(t.Children[newToOld[n] + 1]) |->
                          oldToNew[t.Children[newToOld[n] + 1][i] + 1]]]],
          oldToNew |-> oldToNew] :
         oldToNew \in {oldToNewOf(t, newToOld)}})

\* Topology.Topsort: [panic, t |-> topology after, oldToNew]
Topsort(t) ==
    The({IF st.panic
         THEN [panic |-> TRUE, t |-> t, oldToNew |-> <<>>]
         ELSE The({[panic |-> FALSE, t |-> r.t, oldToNew |-> r.oldToNew] :
                   r \in {remap(t, st.ns)}}) :
         st \in {IF t.Root # NoNodeId
                 THEN dfsTraverse(t, t.Root,
                                  [ns |-> <<>>, visited |-> {}, panic |-> FALSE])
                 ELSE [ns |-> <<>>, visited |-> {}, panic |-> FALSE]}})

\* the inner loop of Disconnect on one children list: i the read position,
\* w the write position, children[:w] at the end
RECURSIVE keepUnflagged(_, _, _, _)
\* the loop that stops at the first flagged child, which it leaves out
keepUnflaggedFirst(children, remove, i, w) ==
    IF i > Len(children) THEN SubSeq(children, 1, w)
    ELSE IF ~remove[children[i] + 1]
    THEN keepUnflagged([children EXCEPT ![w + 1] = children[i]], remove,
                       i + 1, w + 1)
    ELSE SubSeq(children, 1, w) \o SubSeq(children, i + 1, Len(children))

keepUnflagged(children, remove, i, w) ==
    IF i > Len(children) THEN SubSeq(children, 1, w)
    ELSE IF ~remove[children[i] + 1]
    THEN keepUnflagged([children EXCEPT ![w + 1] = children[i]], remove,
                       i + 1, w + 1)
    ELSE keepUnflagged(children, remove, i + 1, w)

DisconnectOrphans(t, remove) ==
    [Root |-> IF t.Root # NoNodeId /\ remove[t.Root + 1]
              THEN NoNodeId ELSE t.Root,
     Children |-> [parent \in 1..TNumNodes(t) |->
                     IF remove[parent] THEN <<>>
                     ELSE keepUnflagged(t.Children[parent], remove, 1, 0)]]

\* Topology.Disconnect, remove[n + 1] the flag of node n
Disconnect(t, remove) ==
    [Root |-> IF t.Root # NoNodeId /\ remove[t.Root + 1]
              THEN NoNodeId ELSE t.Root,
     Children |-> [parent \in 1..TNumNodes(t) |->
                     keepUnflagged(t.Children[parent], remove, 1, 0)]]

\* find with path compression: [r |-> representative, p |-> p after]
RECURSIVE findRoot(_, _), compress(_, _, _)
findRoot(n, p) == IF p[n + 1] # n THEN findRoot(p[n + 1], p) ELSE n

compress(n, r, p) ==
    IF n # r THEN compress(p[n + 1], r, [p EXCEPT ![n + 1] = r]) ELSE p

find(n, p) ==
    The({[r |-> r, p |-> compress(n, r, p)] : r \in {findRoot(n, p)}})

unionChildOnly(parent, child, p) ==
    The({[a.p EXCEPT ![child + 1] = a.r] : a \in {find(parent, p)}})

\* union: p after p[find(child)] = find(parent)
union(parent, child, p) ==
    The({The({[b.p EXCEPT ![b.r + 1] = a.r] : b \in {find(child, a.p)}}) :
         a \in {find(parent, p)}})

\* the first loops of Components: p after the union of every edge, taken
\* parent by parent and child by child
RECURSIVE unionAll(_, _, _, _)
unionAll(t, parent, i, p) ==
    IF parent >= TNumNodes(t) THEN p
    ELSE IF i > Len(t.Children[parent + 1]) THEN unionAll(t, parent + 1, 1, p)
    ELSE The({unionAll(t, parent, i + 1, p1) :
              p1 \in {union(parent, t.Children[parent + 1][i], p)}})

\* the last loop of Components: m after nodes i.. are entered
RECURSIVE collect(_, _, _, _)
collect(t, i, p, m) ==
    IF i >= TNumNodes(t) THEN m
    ELSE The({collect(t, i + 1, f.p,
                      IF f.r \in DOMAIN m
                      THEN [m EXCEPT ![f.r] = Append(@, i)]
                      ELSE [c \in DOMAIN m \cup {f.r} |->
                              IF c = f.r THEN <<i>> ELSE m[c]]) :
              f \in {find(i, p)}})

\* Topology.Components: the map from representatives to their nodes
Components(t) ==
    collect(t, 0, unionAll(t, 0, 1, [i \in 1..TNumNodes(t) |-> i - 1]),
            [c \in {} |-> <<>>])

(***************************************************************************)
(* bimap.Map: the strings in the order of their ids (intToStr); strToInt   *)
(* is its inverse.  A string is a sequence of bytes, "" is <<>>.           *)
(***************************************************************************)
NoInt == -1

\* bimap.New()
New == <<>>

FindByString(m, s) ==
    IF \E i \in 1..Len(m) : m[i] = s
    THEN (CHOOSE i \in 1..Len(m) : m[i] = s) - 1
    ELSE NoInt

FindByInt(m, i) == IF 0 <= i /\ i < Len(m) THEN m[i + 1] ELSE <<>>

\* Add: [panic, m |-> the Map after, i |-> the id]
Add(m, s) ==
    IF Len(s) = 0 THEN [panic |-> TRUE, m |-> m, i |-> NoInt]
    ELSE IF FindByString(m, s) = NoInt
    THEN [panic |-> FALSE, m |-> Append(m, s), i |-> Len(m)]
    ELSE [panic |-> FALSE, m |-> m, i |-> FindByString(m, s)]

\* AppendByString: [panic, m, ints]; a panic leaves what was done before it
RECURSIVE AppendByString(_, _, _)
\* AppendByString that gives every string a new id
AppendByStringFresh(m, strs, ints) ==
    IF strs = <<>> THEN [panic |-> FALSE, m |-> m, ints |-> ints]
    ELSE IF Len(Head(strs)) = 0 THEN [panic |-> TRUE, m |-> m, ints |-> ints]
    ELSE AppendByString(Append(m, Head(strs)), Tail(strs),
                        Append(ints, Len(m)))

AppendByString(m, strs, ints) ==
    IF strs = <<>> THEN [panic |-> FALSE, m |-> m, ints |-> ints]
    ELSE The({IF r.panic THEN [panic |-> TRUE, m |-> m, ints |-> ints]
              ELSE AppendByString(r.m, Tail(strs), Append(ints, r.i)) :
              r \in {Add(m, Head(strs))}})

AppendByInt(m, ints, strs) ==
    strs \o [k \in 1..Len(ints) |-> FindByInt(m, ints[k])]

(***************************************************************************)
(* Package heads.  A HeadRule is [Direction, Priority], Priority a         *)
(* function from labels to levels; a TableHeadFinder is [Table, Fallback], *)
(* Table a function from parent labels to rules (nil: no label).           *)
(***************************************************************************)
UNKNOWN == 0
HEAD_INITIAL == 1
HEAD_FINAL == 2

\* the number of keys of a Go map
MapLen(f) == Cardinality(DOMAIN f)

\* NewHeadRule: a later occurrence of a label in match overrides
NewHeadRule(dir, match) ==
    [Direction |-> dir,
     Priority |-> [v \in Range(match) |->
                     Max({i \in 1..Len(match) : match[i] = v}) - 1]]

LabelPriority(rule, label) ==
    IF label \in DOMAIN rule.Priority THEN rule.Priority[label]
    ELSE MapLen(rule.Priority)

\* the loop of a head-initial rule, at j with the best (i, p) so far
RECURSIVE scanInitial(_, _, _, _, _)
scanInitial(rule, children, j, i, p) ==
    IF j >= Len(children) THEN i
    ELSE IF LabelPriority(rule, children[j + 1]) < p
    THEN scanInitial(rule, children, j + 1, j,
                     LabelPriority(rule, children[j + 1]))
    ELSE scanInitial(rule, children, j + 1, i, p)

\* the loop of a head-final rule
RECURSIVE scanFinal(_, _, _, _, _)
\* scanFinal that also takes a child of equal priority
scanFinalTies(rule, children, j, i, p) ==
    IF j < 0 THEN i
    ELSE IF LabelPriority(rule, children[j + 1]) <= p
    THEN scanFinal(rule, children, j - 1, j,
                   LabelPriority(rule, children[j + 1]))
    ELSE scanFinal(rule, children, j - 1, i, p)

scanFinal(rule, children, j, i, p) ==
    IF j < 0 THEN i
    ELSE IF LabelPriority(rule, children[j + 1]) < p
    THEN scanFinal(rule, children, j - 1, j,
                   LabelPriority(rule, children[j + 1]))
    ELSE scanFinal(rule, children, j - 1, i, p)

\* TableHeadFinder.FindHead: [panic, i]
FindHead(finder, parent, children) ==
    IF Len(children) = 0 THEN [panic |-> TRUE, i |-> 0]
    ELSE IF parent \notin DOMAIN finder.Table
    THEN (IF finder.Fallback = HEAD_INITIAL THEN [panic |-> FALSE, i |-> 0]
          ELSE IF finder.Fallback = HEAD_FINAL
          THEN [panic |-> FALSE, i |-> Len(children) - 1]
          ELSE [panic |-> TRUE, i |-> 0])
    ELSE IF finder.Table[parent].Direction = HEAD_INITIAL
    THEN [panic |-> FALSE,
          i |-> scanInitial(finder.Table[parent], children, 1, 0,
                            LabelPriority(finder.Table[parent], children[1]))]
    ELSE IF finder.Table[parent].Direction = HEAD_FINAL
    THEN [panic |-> FALSE,
          i |-> scanFinal(finder.Table[parent], children,
                          Len(children) - 2, Len(children) - 1,
                          LabelPriority(finder.Table[parent],
                                        children[Len(children)]))]
    ELSE [panic |-> TRUE, i |-> 0]

(***************************************************************************)
(* ParseTree with its optional annotations.  Map is "nil" or "m", the one  *)
(* bimap.Map the callers share, whose contents are kept beside the tree;   *)
(* UpLink is Topology.UpLink.  A nil slice is <<>>.  The routines return   *)
(* [panic, tree, bm]: a panic leaves what was assigned before it.          *)
(***************************************************************************)
ParseTree(t) ==
    [Topology |-> Topo(t.Topology), UpLink |-> <<>>, Map |-> "nil",
     Label |-> t.Label, Id |-> <<>>, Span |-> <<>>, Head |-> <<>>,
     HeadLeaf |-> <<>>]

Done(tree, bm) == [panic |-> FALSE, tree |-> tree, bm |-> bm]

Abort(tree, bm) == [panic |-> TRUE, tree |-> tree, bm |-> bm]

FILL_LABEL_ID == 1
FILL_SPAN == 2
FILL_HEAD == 4
FILL_HEAD_LEAF == 8
FILL_UP_LINK == 16
FILL_EVERYTHING == 31

\* flags & f != 0, f one bit
Has(flags, f) == (flags \div f) % 2 = 1

\* s[:n] when the slice is long enough, a new zeroed slice otherwise
Resized(s, n, zero) ==
    IF Len(s) >= n THEN SubSeq(s, 1, n) ELSE [i \in 1..n |-> zero]

RemapByLabel(tree, bm, m) ==
    IF Len(tree.Label) # TNumNodes(tree.Topology) THEN Abort(tree, bm)
    ELSE IF m = "nil" /\ tree.Map = "nil" THEN Abort(tree, bm)
    ELSE The({[panic |-> r.panic,
               tree |-> [tree EXCEPT !.Map = "m", !.Id = r.ints],
               bm |-> r.m] :
              r \in {AppendByString(bm, tree.Label, <<>>)}})

RemapById(tree, bm, m) ==
    IF Len(tree.Id) # TNumNodes(tree.Topology) THEN Abort(tree, bm)
    ELSE IF m = "nil" /\ tree.Map = "nil" THEN Abort(tree, bm)
    ELSE Done([tree EXCEPT !.Map = "m",
                           !.Label = AppendByInt(bm, tree.Id, <<>>)], bm)

ZeroSpan == [Left |-> 0, Right |-> 0]

\* dfsFillSpan: [Span, right]
RECURSIVE dfsFillSpan(_, _, _, _)
RECURSIVE dfsFillSpanChildren(_, _, _, _, _)
\* dfsFillSpan that gives a leaf no width
dfsFillSpanNoWidth(t, span, node, left) ==
    IF Len(t.Children[node + 1]) = 0
    THEN [Span |-> [span EXCEPT ![node + 1] = [Left |-> left, Right |-> left]],
          right |-> left]
    ELSE The({[Span |-> [r.Span EXCEPT ![node + 1].Right = r.right],
               right |-> r.right] :
              r \in {dfsFillSpanChildren(
                         t, [span EXCEPT ![node + 1].Left = left],
                         t.Children[node + 1], 1, left)}})

dfsFillSpan(t, span, node, left) ==
    IF Len(t.Children[node + 1]) = 0
    THEN [Span |-> [span EXCEPT ![node + 1] =
                                [Left |-> left, Right |-> left + 1]],
          right |-> left + 1]
    ELSE The({[Span |-> [r.Span EXCEPT ![node + 1].Right = r.right],
               right |-> r.right] :
              r \in {dfsFillSpanChildren(
                         t, [span EXCEPT ![node + 1].Left = left],
                         t.Children[node + 1], 1, left)}})

\* the loop over the children of a node, at the k-th with right so far
dfsFillSpanChildren(t, span, children, k, right) ==
    IF k > Len(children) THEN [Span |-> span, right |-> right]
    ELSE The({dfsFillSpanChildren(t, r.Span, children, k + 1, r.right) :
              r \in {dfsFillSpan(t, span, children[k], right)}})

FillSpan(tree) ==
    The({[tree EXCEPT !.Span =
             IF tree.Topology.Root # NoNodeId
             THEN dfsFillSpan(tree.Topology, base, tree.Topology.Root, 0).Span
             ELSE base] :
         base \in {Resized(tree.Span, TNumNodes(tree.Topology), ZeroSpan)}})

\* the labels of the children of a node
ChildLabels(tree, i) ==
    [k \in 1..Len(tree.Topology.Children[i + 1]) |->
       tree.Label[tree.Topology.Children[i + 1][k] + 1]]

\* what FillHead stores for node i: [panic, i]
HeadOf(tree, finder, i) ==
    IF Len(tree.Topology.Children[i + 1]) = 0 THEN [panic |-> FALSE, i |-> -1]
    ELSE FindHead(finder, tree.Label[i + 1], ChildLabels(tree, i))

\* FillHead: [panic, tree]; the nodes in front of the first one the finder
\* panics on have their heads stored
FillHead(tree, finder) ==
    IF Len(tree.Label) # TNumNodes(tree.Topology)
    THEN [panic |-> TRUE, tree |-> tree]
    ELSE The({[panic |-> bad # {},
               tree |-> [tree EXCEPT !.Head =
                  [i \in 1..TNumNodes(tree.Topology) |->
                     IF bad = {} \/ i - 1 < Min(bad)
                     THEN HeadOf(tree, finder, i - 1).i
                     ELSE Resized(tree.Head, TNumNodes(tree.Topology), 0)[i]]]] :
              bad \in {{i \in TNodes(tree.Topology) :
                          HeadOf(tree, finder, i).panic}}})

\* the first loop of FillHeadLeaf: the head child, or the node itself
headChild(tree) ==
    [i \in 1..TNumNodes(tree.Topology) |->
       IF tree.Head[i] >= 0
       THEN tree.Topology.Children[i][tree.Head[i] + 1]
       ELSE i - 1]

\* for hh != hl[hh] { hh = hl[hh] }
RECURSIVE chase(_, _)
chase(hl, hh) == IF hh = hl[hh + 1] THEN hh ELSE chase(hl, hl[hh + 1])

\* for hl[i] != hh { j := hl[i]; hl[i] = hh; i = int(j) }
RECURSIVE compressTo(_, _, _)
compressTo(hl, i, hh) ==
    IF hl[i + 1] = hh THEN hl
    ELSE compressTo([hl EXCEPT ![i + 1] = hh], hl[i + 1], hh)

\* the second loop of FillHeadLeaf, from node i on
RECURSIVE resolve(_, _)
\* resolve that stops at the head child
resolveOneStep(hl, i) == hl

resolve(hl, i) ==
    IF i >= Len(hl) THEN hl
    ELSE resolve(compressTo(hl, i, chase(hl, hl[hl[i + 1] + 1])), i + 1)

\* FillHeadLeaf: [panic, tree]; a head that is no position of a child stops
\* the first loop, which has written into HeadLeaf where it reuses the slice
FillHeadLeaf(tree) ==
    IF Len(tree.Head) # TNumNodes(tree.Topology)
    THEN [panic |-> TRUE, tree |-> tree]
    ELSE The({
        IF bad # {}
        THEN [panic |-> TRUE,
              tree |-> IF Len(tree.HeadLeaf) < Len(tree.Head) THEN tree
                       ELSE [tree EXCEPT !.HeadLeaf =
                               [i \in 1..Len(tree.HeadLeaf) |->
                                  IF i < Min(bad) THEN headChild(tree)[i]
                                  ELSE tree.HeadLeaf[i]]]]
        ELSE [panic |-> FALSE,
              tree |-> [tree EXCEPT !.HeadLeaf = resolve(headChild(tree), 0)]] :
        bad \in {{i \in 1..Len(tree.Head) :
                    tree.Head[i] >= Len(tree.Topology.Children[i])}}})

\* the places (parent, nth) where a node is somebody's child
UpPlaces(t, c) ==
    {<<q, k>> \in TNodes(t) \X (0..MaxNodes) :
        k < Len(t.Children[q + 1]) /\ t.Children[q + 1][k + 1] = c}

\* Topology.FillUpLink: the last place in the order of the loops wins
FillUpLink(tree) ==
    [tree EXCEPT !.UpLink =
       [c \in 1..TNumNodes(tree.Topology) |->
          IF UpPlaces(tree.Topology, c - 1) = {}
          THEN [Parent |-> NoNodeId,
                NthChild |-> Resized(tree.UpLink, TNumNodes(tree.Topology),
                                     [Parent |-> 0, NthChild |-> 0])[c].NthChild]
          ELSE The({[Parent |-> q,
                     NthChild |-> Max({pl[2] : pl \in
                                         {x \in UpPlaces(tree.Topology, c - 1) :
                                             x[1] = q}})] :
                    q \in {Max({pl[1] : pl \in UpPlaces(tree.Topology, c - 1)})}})]]

\* Fill that fills Head only when FILL_HEAD is selected
FillHeadOnlyOnFlag(tree, bm, flags, m, finder) ==
    The({The({The({The({
        IF s4.panic \/ ~Has(flags, FILL_UP_LINK) THEN s4
        ELSE Done(FillUpLink(s4.tree), s4.bm) :
        s4 \in {IF s3.panic \/ ~Has(flags, FILL_HEAD_LEAF) THEN s3
                ELSE FillHeadLeaf(s3.tree) @@ [bm |-> s3.bm]}}) :
        s3 \in {IF s2.panic \/ ~Has(flags, FILL_HEAD)
                THEN s2
                ELSE FillHead(s2.tree, finder) @@ [bm |-> s2.bm]}}) :
        s2 \in {IF s1.panic \/ ~Has(flags, FILL_SPAN) THEN s1
                ELSE Done(FillSpan(s1.tree), s1.bm)}}) :
        s1 \in {IF ~Has(flags, FILL_LABEL_ID) THEN Done(tree, bm)
                ELSE IF TNumNodes(tree.Topology) = Len(tree.Label)
                THEN RemapByLabel(tree, bm, m)
                ELSE RemapById(tree, bm, m)}})

\* ParseTree.Fill
Fill(tree, bm, flags, m, finder) ==
    The({The({The({The({
        IF s4.panic \/ ~Has(flags, FILL_UP_LINK) THEN s4
        ELSE Done(FillUpLink(s4.tree), s4.bm) :
        s4 \in {IF s3.panic \/ ~Has(flags, FILL_HEAD_LEAF) THEN s3
                ELSE FillHeadLeaf(s3.tree) @@ [bm |-> s3.bm]}}) :
        s3 \in {IF s2.panic \/ ~(Has(flags, FILL_HEAD) \/ Has(flags, FILL_HEAD_LEAF))
                THEN s2
                ELSE FillHead(s2.tree, finder) @@ [bm |-> s2.bm]}}) :
        s2 \in {IF s1.panic \/ ~Has(flags, FILL_SPAN) THEN s1
                ELSE Done(FillSpan(s1.tree), s1.bm)}}) :
        s1 \in {IF ~Has(flags, FILL_LABEL_ID) THEN Done(tree, bm)
                ELSE IF TNumNodes(tree.Topology) = Len(tree.Label)
                THEN RemapByLabel(tree, bm, m)
                ELSE RemapById(tree, bm, m)}})

\* the old node that became the new node n
OldOf(oldToNew, n) == (CHOOSE o \in 1..Len(oldToNew) : oldToNew[o] = n) - 1

\* Carried that keeps the entries where they were
CarriedInPlace(a, oldToNew, oldNumNodes, numNodes) ==
    IF Len(a) = oldNumNodes THEN SubSeq(a, 1, numNodes) ELSE <<>>

\* an optional array in the new numbering: nil unless it had an entry for
\* every old node
Carried(a, oldToNew, oldNumNodes, numNodes) ==
    IF Len(a) = oldNumNodes
    THEN [n \in 1..numNodes |-> a[OldOf(oldToNew, n - 1) + 1]]
    ELSE <<>>

\* ParseTree.Topsort that sorts the Topology and leaves the arrays
TreeTopsortTopologyOnly(tree) ==
    The({IF r.panic
         THEN [panic |-> TRUE, tree |-> tree, oldToNew |-> <<>>]
         ELSE [panic |-> FALSE,
               tree |-> [tree EXCEPT !.Topology = r.t, !.UpLink = <<>>],
               oldToNew |-> r.oldToNew] :
         r \in {Topsort(tree.Topology)}})

\* ParseTree.Topsort: [panic, tree, oldToNew]; Topology.Topsort panics before
\* it changes anything, a HeadLeaf entry that is no old node stops the loop
\* after the Topology is sorted and before the arrays are assigned
TreeTopsort(tree) ==
    The({IF r.panic
         THEN [panic |-> TRUE, tree |-> tree, oldToNew |-> <<>>]
         ELSE IF /\ Len(tree.HeadLeaf) = TNumNodes(tree.Topology)
                 /\ \E o \in 1..Len(r.oldToNew) :
                       /\ r.oldToNew[o] # NoNodeId
                       /\ tree.HeadLeaf[o] \notin TNodes(tree.Topology)
         THEN [panic |-> TRUE,
               tree |-> [tree EXCEPT !.Topology = r.t, !.UpLink = <<>>],
               oldToNew |-> <<>>]
         ELSE [panic |-> FALSE,
               tree |-> [tree EXCEPT
                  !.Topology = r.t,
                  !.UpLink = <<>>,
                  !.Label = Carried(tree.Label, r.oldToNew,
                                    TNumNodes(tree.Topology), TNumNodes(r.t)),
                  !.Id = Carried(tree.Id, r.oldToNew,
                                 TNumNodes(tree.Topology), TNumNodes(r.t)),
                  !.Span = Carried(tree.Span, r.oldToNew,
                                   TNumNodes(tree.Topology), TNumNodes(r.t)),
                  !.Head = Carried(tree.Head, r.oldToNew,
                                   TNumNodes(tree.Topology), TNumNodes(r.t)),
                  !.HeadLeaf =
                     IF Len(tree.HeadLeaf) = TNumNodes(tree.Topology)
                     THEN [n \in 1..TNumNodes(r.t) |->
                             r.oldToNew[tree.HeadLeaf[OldOf(r.oldToNew, n - 1)
                                                      + 1] + 1]]
                     ELSE <<>>],
               oldToNew |-> r.oldToNew] :
         r \in {Topsort(tree.Topology)}})

\* stripLabelAnnotation: the label up to its first '-' or '='
RECURSIVE stripLabelAnnotation(_)
\* stripLabelAnnotation that cuts at '-' only
stripLabelAnnotationDash(label) ==
    IF label = <<>> \/ Head(label) = "-" THEN <<>>
    ELSE <<Head(label)>> \o stripLabelAnnotation(Tail(label))

stripLabelAnnotation(label) ==
    IF label = <<>> \/ Head(label) \in {"-", "="} THEN <<>>
    ELSE <<Head(label)>> \o stripLabelAnnotation(Tail(label))

\* what StripAnnotation stores for the label of node i
Stripped(tree, i) ==
    IF Len(tree.Topology.Children[i + 1]) = 0
    THEN (IF Len(tree.Label[i + 1]) > 0 /\ tree.Label[i + 1][1] = "*"
          THEN stripLabelAnnotation(tree.Label[i + 1])
          ELSE tree.Label[i + 1])
    ELSE (IF Len(tree.Label[i + 1]) > 0 /\ tree.Label[i + 1][1] # "-"
          THEN stripLabelAnnotation(tree.Label[i + 1])
          ELSE tree.Label[i + 1])

\* ParseTree.StripAnnotation: [panic, tree]; a label without a node stops
\* the loop at that label
StripAnnotation(tree) ==
    [panic |-> Len(tree.Label) > TNumNodes(tree.Topology),
     tree |-> [tree EXCEPT !.Label =
                 [i \in 1..Len(tree.Label) |->
                    IF i <= TNumNodes(tree.Topology)
                    THEN Stripped(tree, i - 1) ELSE tree.Label[i]]]]

\* the label RemoveNone looks for
NONE == <<"-", "N", "O", "N", "E", "-">>

\* the marking loop of RemoveNone from node i - 1 down to node 0;
\* invisible[n + 1] is the flag of node n
RECURSIVE markInvisible(_, _, _)
\* the marking loop that flags the -NONE- nodes and nothing above them
markInvisibleNoneOnly(tree, i, invisible) ==
    IF i = 0 THEN invisible
    ELSE markInvisible(tree, i - 1,
            IF tree.Label[i] = NONE THEN [invisible EXCEPT ![i] = TRUE]
            ELSE invisible)

markInvisible(tree, i, invisible) ==
    IF i = 0 THEN invisible
    ELSE markInvisible(tree, i - 1,
            IF tree.Label[i] = NONE THEN [invisible EXCEPT ![i] = TRUE]
            ELSE IF Len(tree.Topology.Children[i]) > 0
            THEN (IF \A k \in 1..Len(tree.Topology.Children[i]) :
                        invisible[tree.Topology.Children[i][k] + 1]
                  THEN [n \in 1..Len(invisible) |->
                          IF n = i THEN TRUE
                          ELSE IF n - 1 \in Range(tree.Topology.Children[i])
                          THEN FALSE
                          ELSE invisible[n]]
                  ELSE [invisible EXCEPT ![i] = FALSE])
            ELSE invisible)

\* ParseTree.RemoveNone: [panic, tree]; the first Topsort may panic, a tree
\* with nodes and no Label for each of them stops the marking loop at its
\* first node, the last Topsort may panic
RemoveNone(tree) ==
    The({IF s1.panic THEN [panic |-> TRUE, tree |-> s1.tree]
         ELSE IF Len(s1.tree.Label) < TNumNodes(s1.tree.Topology)
         THEN [panic |-> TRUE, tree |-> s1.tree]
         ELSE The({[panic |-> s3.panic, tree |-> s3.tree] :
                   s3 \in {TreeTopsort(
                      [s1.tree EXCEPT !.Topology =
                          Disconnect(@, markInvisible(
                             s1.tree, TNumNodes(s1.tree.Topology),
                             [n \in 1..TNumNodes(s1.tree.Topology) |->
                                FALSE]))])}}) :
         s1 \in {TreeTopsort(tree)}})

(***************************************************************************)
(* The inputs.  A token string is a sequence of tokens, each a byte        *)
(* sequence; Gen[n] holds the token strings of the nodes (node) and of the *)
(* children lists (kids) whose trees have exactly n nodes.                 *)
(***************************************************************************)
Words == {<<"a">>, <<"b", "a">>}

TOpen == <<"(">>
TClose == <<")">>

Gen[n \in 0..MaxNodes] ==
    LET node == IF n < 2 THEN {}
                ELSE (IF n = 2 THEN {<<c, w>> : c \in Words, w \in Words}
                      ELSE {})
                     \cup {<<c>> \o k : c \in Words, k \in Gen[n - 1].kids}
        wrap(x) == <<TOpen>> \o x \o <<TClose>>
        kids == {wrap(x) : x \in node}
                \cup UNION {{wrap(x) \o y : x \in Gen[j].node,
                                            y \in Gen[n - j].kids} :
                            j \in 2..(n - 2)}
    IN [node |-> node, kids |-> kids]

EmptyUnit == <<TOpen, TOpen, TClose, TClose>>

UnitOf(x) == <<TOpen, TOpen>> \o x \o <<TClose, TClose>>

\* the well-formed units with at most n nodes
Units(n) == {EmptyUnit} \cup UNION {{UnitOf(x) : x \in Gen[k].node} : k \in 2..n}

\* a unit cut after k tokens, then nothing or one more token of any kind
Broken(U) ==
    UNION {{SubSeq(u, 1, k) \o m :
               k \in 0..Len(u),
               m \in {<<>>, <<TOpen>>, <<TClose>>, <<(<<"a">>)>>}} : u \in U}

\* the sequences of at most n members of S, concatenated
RECURSIVE Runs(_, _)
Runs(S, n) ==
    IF n = 0 THEN {<<>>}
    ELSE {<<>>} \cup {u \o r : u \in S, r \in Runs(S, n - 1)}

TokenInputs ==
    Broken(Units(MaxNodes))
    \cup {r \o b : r \in Runs(Units(2), MaxUnits), b \in Broken(Units(2))}

\* tight: one space where two words meet and nowhere else
RECURSIVE RenderTight(_)
RenderTight(ts) ==
    IF ts = <<>> THEN <<>>
    ELSE IF Len(ts) = 1 THEN ts[1]
    ELSE ts[1]
         \o (IF ts[1] \notin {TOpen, TClose} /\ ts[2] \notin {TOpen, TClose}
             THEN <<" ">> ELSE <<>>)
         \o RenderTight(Tail(ts))

\* loose: white space before every token and at the end, the three white
\* space bytes in turn
WhiteAt(i) == IF i % 3 = 0 THEN " " ELSE IF i % 3 = 1 THEN "\n" ELSE "\t"

RenderLoose(ts) ==
    Flatten([i \in 1..Len(ts) |-> <<WhiteAt(i)>> \o ts[i]]) \o <<WhiteAt(0)>>

RECURSIVE Strings(_, _)
Strings(A, n) ==
    IF n = 0 THEN {<<>>}
    ELSE {<<>>} \cup {<<a>> \o r : a \in A, r \in Strings(A, n - 1)}

RawBytes == {"(", ")", " ", "\n", "a"}

Inputs ==
    {RenderTight(ts) : ts \in TokenInputs}
    \cup {RenderLoose(ts) : ts \in TokenInputs}
    \cup Strings(RawBytes, MaxRaw)

VARIABLES
    p,      \* the Parser and its byte source
    pre,    \* the Parser as it was before the last Parser.Next
    ret,    \* what the last Parser.Next returned
    calls,  \* the Parser.Next calls made so far
    all,    \* what ParseAll returned on the byte source, once called
    rt,     \* ParseString(ret.tree.String()), once computed
    topo,   \* a Topology
    told,   \* the Topology as it was before the last Topsort or Disconnect
    top,    \* the last Topsort, Disconnect or Components: argument and result
    otopo,  \* a Topology that keeps the parent array
    olast,  \* the last AppendChild on otopo and the Topology before it
    tree,   \* a ParseTree with its annotations
    bm,     \* the bimap.Map the callers share
    finder, \* the head finder last used
    tcut,   \* the ParseTree as it was parsed, or as Disconnect left it
    hist,   \* the names of the operations made on tree so far
    tlast,  \* the last operation on tree: arguments, ParseTree before, result
    harg,   \* a head finder, a parent label and the labels of its children
    hret,   \* what FindHead returned on harg, once called
    tk,     \* the last nextToken or peekToken: result, Parser before it
    delivered, \* what the nextToken calls returned so far, in order
    cc      \* a Components call on otopo in progress: its locals, step by step

pvars == <<p, pre, ret, calls, all, rt>>

tvars == <<topo, told, top>>

ovars == <<otopo, olast>>

avars == <<tree, bm, finder, tcut, hist, tlast>>

hvars == <<harg, hret>>

kvars == <<tk, delivered, cc>>

vars ==
    <<p, pre, ret, calls, all, rt, topo, told, top, otopo, olast,
      tree, bm, finder, tcut, hist, tlast, harg, hret, tk, delivered,
      cc>>

NoRet == [tree |-> NilTree, err |-> ErrNil]

NoAll == [done |-> FALSE, from |-> 0, trees |-> <<>>, err |-> ErrNil]

NoRt == [done |-> FALSE, s |-> <<>>, tree |-> NilTree, err |-> ErrNil]

NoOp ==
    [name |-> "none", remove |-> <<>>, panic |-> FALSE, oldToNew |-> <<>>,
     comps |-> <<>>]

NoAppend ==
    [done |-> FALSE, a |-> 0, b |-> 0, panic |-> FALSE,
     before |-> NewEmptyTopology]

NoFill ==
    [name |-> "none", panic |-> FALSE, before |-> ParseTree(NewParseTree),
     bm |-> New, flags |-> 0, m |-> "nil", remove |-> <<>>,
     oldToNew |-> <<>>]

NoHead == [done |-> FALSE, panic |-> FALSE, i |-> 0]

\* &TableHeadFinder{nil, HEAD_FINAL}
FinalFinder == [Table |-> <<>>, Fallback |-> HEAD_FINAL]

NoHeadArg == [finder |-> FinalFinder, parent |-> <<>>, children |-> <<>>]

NoTok ==
    [name |-> "none", res |-> [token |-> <<>>, kind |-> kOpen, err |-> ErrNil],
     before |-> NewParser(<<>>, EOF), prevname |-> "none",
     prev |-> [token |-> <<>>, kind |-> kOpen, err |-> ErrNil], run |-> 0]

\* no Components call is under way: pc is the place in the code, p the
\* union-find array, child the index of the loop over t.parent, n, r the
\* locals of find, a the result of find(parent), who the find under way,
\* spins the parity of the iterations made by the second loop of find, m
\* the map returned
NoRun ==
    [pc |-> "idle", p |-> <<>>, child |-> 0, n |-> 0, r |-> 0, a |-> 0,
     who |-> "a", spins |-> 0, m |-> <<>>]

\* neither the tokenizer nor Components is run step by step
NoTokens == tk = NoTok /\ delivered = <<>> /\ cc = NoRun

\* no ParseTree is annotated
NoAnnotation ==
    /\ tree = ParseTree(NewParseTree)
    /\ bm = New
    /\ finder = FinalFinder
    /\ tcut = tree
    /\ hist = <<>>
    /\ tlast = NoFill
    /\ harg = NoHeadArg
    /\ hret = NoHead
    /\ NoTokens

Init ==
    /\ \E in \in Inputs, end \in {EOF, IOFault} : p = NewParser(in, end)
    /\ pre = p
    /\ ret = NoRet
    /\ calls = 0
    /\ all = NoAll
    /\ rt = NoRt
    /\ topo = NewEmptyTopo
    /\ told = topo
    /\ top = NoOp
    /\ otopo = NewEmptyTopology
    /\ olast = NoAppend
    /\ NoAnnotation

\* tree, err := p.Next()
CallNext ==
    /\ calls < MaxCalls
    /\ \E r \in {ParserNext(p)} :
          /\ p' = r.p
          /\ ret' = [tree |-> r.tree, err |-> r.err]
    /\ pre' = p
    /\ calls' = calls + 1
    /\ rt' = NoRt
    /\ UNCHANGED <<all, tvars, ovars, avars, hvars, kvars>>

\* trees, err := ParseAll(input), on the byte source where it stands
CallParseAll ==
    /\ calls = 0
    /\ ~all.done
    /\ \E r \in {ParseAll(p.in, p.pos, p.end)} :
          /\ all' = [done |-> TRUE, from |-> p.pos, trees |-> r.trees,
                     err |-> r.err]
          /\ p' = [p EXCEPT !.pos = r.p.pos]
    /\ UNCHANGED <<pre, ret, calls, rt, tvars, ovars, avars, hvars, kvars>>

\* ParseString(tree.String()) of the tree Parser.Next returned
RoundTrip ==
    /\ calls > 0
    /\ ret.err = ErrNil
    /\ ~rt.done
    /\ \E s \in {String(ret.tree)} :
          \E r \in {ParseString(s)} :
             rt' = [done |-> TRUE, s |-> s, tree |-> r.tree, err |-> r.err]
    /\ UNCHANGED <<p, pre, ret, calls, all, tvars, ovars, avars, hvars, kvars>>

Next == CallNext \/ CallParseAll \/ RoundTrip

Spec == Init /\ [][Next]_vars

(***************************************************************************)
(* A Topology built by its user: NewEmptyTopology or NewRootedTopology,    *)
(* then AddNode, AppendChild and assignments to Root in any order, then    *)
(* one Topsort, Components or Disconnect, and after a Disconnect the same  *)
(* Disconnect once more.  AppendChild checks nothing, so a child may be    *)
(* given a second parent, an ancestor or itself.                           *)
(***************************************************************************)
TopoInit ==
    /\ p = NewParser(<<>>, EOF)
    /\ pre = p
    /\ ret = NoRet
    /\ calls = 0
    /\ all = NoAll
    /\ rt = NoRt
    /\ topo \in {NewEmptyTopo, NewRootedTopology}
    /\ told = topo
    /\ top = NoOp
    /\ otopo = NewEmptyTopology
    /\ olast = NoAppend
    /\ NoAnnotation

\* t.AddNode()
CallAddNode ==
    /\ top = NoOp
    /\ TNumNodes(topo) < MaxTopoNodes
    /\ topo' = TAddNode(topo)
    /\ told' = topo'
    /\ UNCHANGED <<pvars, ovars, top, avars, hvars, kvars>>

\* t.AppendChild(parent, child)
CallAppendChild ==
    /\ top = NoOp
    /\ Len(Flatten(topo.Children)) < MaxEdges
    /\ \E parent \in TNodes(topo), child \in TNodes(topo) :
          topo' = TAppendChild(topo, parent, child)
    /\ told' = topo'
    /\ UNCHANGED <<pvars, ovars, top, avars, hvars, kvars>>

\* t.Root = r
AssignRoot ==
    /\ top = NoOp
    /\ \E r \in TNodes(topo) \cup {NoNodeId} :
          /\ r # topo.Root
          /\ topo' = [topo EXCEPT !.Root = r]
    /\ told' = topo'
    /\ UNCHANGED <<pvars, ovars, top, avars, hvars, kvars>>

\* oldToNew := t.Topsort()
CallTopsort ==
    /\ top = NoOp
    /\ \E r \in {Topsort(topo)} :
          /\ topo' = r.t
          /\ top' = [name |-> "Topsort", remove |-> <<>>, panic |-> r.panic,
                     oldToNew |-> r.oldToNew, comps |-> <<>>]
    /\ told' = topo
    /\ UNCHANGED <<pvars, ovars, avars, hvars, kvars>>

\* t.Disconnect(remove)
CallDisconnect ==
    /\ top = NoOp
    /\ \E remove \in [1..TNumNodes(topo) -> BOOLEAN] :
          /\ topo' = Disconnect(topo, remove)
          /\ top' = [name |-> "Disconnect", remove |-> remove,
                     panic |-> FALSE, oldToNew |-> <<>>, comps |-> <<>>]
    /\ told' = topo
    /\ UNCHANGED <<pvars, ovars, avars, hvars, kvars>>

\* t.Disconnect(remove) once more, with the flags of the Disconnect before
CallDisconnectAgain ==
    /\ top.name = "Disconnect"
    /\ topo' = Disconnect(topo, top.remove)
    /\ top' = [top EXCEPT !.name = "DisconnectAgain"]
    /\ UNCHANGED <<pvars, ovars, told, avars, hvars, kvars>>

\* m := t.Components()
CallComponents ==
    /\ top = NoOp
    /\ \E m \in {Components(topo)} :
          top' = [name |-> "Components", remove |-> <<>>, panic |-> FALSE,
                  oldToNew |-> <<>>, comps |-> m]
    /\ told' = topo
    /\ UNCHANGED <<pvars, ovars, topo, avars, hvars, kvars>>

TopoNext ==
    \/ CallAddNode
    \/ CallAppendChild
    \/ AssignRoot
    \/ CallTopsort
    \/ CallDisconnect
    \/ CallDisconnectAgain
    \/ CallComponents

SpecTopology == TopoInit /\ [][TopoNext]_vars

(***************************************************************************)
(* The two Topology types under the same calls: otopo keeps a parent array *)
(* and checks AppendChild, topo keeps none and checks nothing.  A call     *)
(* that panics on otopo leaves it as it was and still goes on to topo.     *)
(***************************************************************************)
BothInit ==
    /\ p = NewParser(<<>>, EOF)
    /\ pre = p
    /\ ret = NoRet
    /\ calls = 0
    /\ all = NoAll
    /\ rt = NoRt
    /\ \E rooted \in BOOLEAN :
          /\ topo = (IF rooted THEN NewRootedTopology ELSE NewEmptyTopo)
          /\ otopo = (IF rooted THEN ONewRootedTopology ELSE NewEmptyTopology)
    /\ told = topo
    /\ top = NoOp
    /\ olast = NoAppend
    /\ NoAnnotation

\* AddNode() on both
BothAddNode ==
    /\ TNumNodes(topo) < MaxTopoNodes
    /\ topo' = TAddNode(topo)
    /\ otopo' = AddNode(otopo)
    /\ told' = topo'
    /\ olast' = NoAppend
    /\ UNCHANGED <<pvars, top, avars, hvars, kvars>>

\* SetRoot(r) on otopo, Root = r on topo
BothSetRoot ==
    /\ \E r \in TNodes(topo) :
          /\ r # topo.Root
          /\ topo' = [topo EXCEPT !.Root = r]
          /\ otopo' = SetRoot(otopo, r)
    /\ told' = topo'
    /\ olast' = NoAppend
    /\ UNCHANGED <<pvars, top, avars, hvars, kvars>>

\* AppendChild(a, b) on both
BothAppendChild ==
    /\ Len(Flatten(topo.Children)) < MaxAppends
    /\ \E a \in TNodes(topo), b \in TNodes(topo) :
          /\ topo' = TAppendChild(topo, a, b)
          /\ otopo' = (IF AppendChildPanics(otopo, a, b) THEN otopo
                       ELSE AppendChild(otopo, a, b))
          /\ olast' = [done |-> TRUE, a |-> a, b |-> b,
                       panic |-> AppendChildPanics(otopo, a, b),
                       before |-> otopo]
    /\ told' = topo
    /\ UNCHANGED <<pvars, top, avars, hvars, kvars>>

BothNext == BothAddNode \/ BothSetRoot \/ BothAppendChild

SpecAppendChild == BothInit /\ [][BothNext]_vars

(***************************************************************************)
(* A parsed tree and its annotations.  The tree is parsed from one         *)
(* well-formed unit; its user may disconnect nodes, then fill annotations  *)
(* one by one or with Fill, then add a node, then sort.  The operations    *)
(* come in this order, each at most once, any of them left out; a panic    *)
(* ends the run.                                                           *)
(***************************************************************************)
Finders ==
    {FinalFinder,
     [Table |-> [l \in {<<"a">>} |-> NewHeadRule(HEAD_FINAL, <<(<<"b", "a">>)>>)],
      Fallback |-> HEAD_INITIAL],
     [Table |-> [l \in {<<"a">>} |-> NewHeadRule(HEAD_INITIAL, <<(<<"b", "a">>)>>)],
      Fallback |-> UNKNOWN]}

\* the ParseTree of a well-formed unit, as ParseString returns it
Parsed(u) == ParseTree(ParseString(RenderTight(u)).tree)

Rank ==
    [Disconnect |-> 1, RemapByLabel |-> 2, ClearLabel |-> 3, FillSpan |-> 4,
     FillHead |-> 5, FillHeadLeaf |-> 6, Fill |-> 7, AddNode |-> 8,
     Topsort |-> 9, StripAnnotation |-> 9]

\* the operation may come now
Ready(name) ==
    /\ ~tlast.panic
    /\ (IF hist = <<>> THEN TRUE ELSE Rank[Last(hist)] < Rank[name])

Op(name, r) ==
    [name |-> name, panic |-> r.panic, before |-> tree, bm |-> bm,
     flags |-> 0, m |-> "nil", remove |-> <<>>, oldToNew |-> <<>>]

TreeInit ==
    /\ p = NewParser(<<>>, EOF)
    /\ pre = p
    /\ ret = NoRet
    /\ calls = 0
    /\ all = NoAll
    /\ rt = NoRt
    /\ topo = NewEmptyTopo
    /\ told = topo
    /\ top = NoOp
    /\ otopo = NewEmptyTopology
    /\ olast = NoAppend
    /\ \E u \in Units(MaxNodes) : tree = Parsed(u)
    /\ bm = New
    /\ finder = FinalFinder
    /\ tcut = tree
    /\ hist = <<>>
    /\ tlast = NoFill
    /\ harg = NoHeadArg
    /\ hret = NoHead
    /\ NoTokens

\* tree.Topology.Disconnect(remove)
TreeDisconnect ==
    /\ Ready("Disconnect")
    /\ \E remove \in [1..TNumNodes(tree.Topology) -> BOOLEAN] :
          /\ tree' = [tree EXCEPT !.Topology = Disconnect(tree.Topology, remove)]
          /\ tlast' = [Op("Disconnect", [panic |-> FALSE])
                         EXCEPT !.remove = remove]
    /\ tcut' = tree'
    /\ hist' = Append(hist, "Disconnect")
    /\ UNCHANGED <<pvars, tvars, ovars, hvars, bm, finder, kvars>>

\* tree.RemapByLabel(m), m the shared Map or nil
CallRemapByLabel ==
    /\ Ready("RemapByLabel")
    /\ \E m \in {"nil", "m"} :
          \E r \in {RemapByLabel(tree, bm, m)} :
             /\ tree' = r.tree
             /\ bm' = r.bm
             /\ tlast' = [Op("RemapByLabel", r) EXCEPT !.m = m]
    /\ hist' = Append(hist, "RemapByLabel")
    /\ UNCHANGED <<pvars, tvars, ovars, hvars, finder, tcut, kvars>>

\* tree.Label = nil, once Id is filled
ClearLabel ==
    /\ Ready("ClearLabel")
    /\ hist # <<>>
    /\ Last(hist) = "RemapByLabel"
    /\ tree' = [tree EXCEPT !.Label = <<>>]
    /\ tlast' = Op("ClearLabel", [panic |-> FALSE])
    /\ hist' = Append(hist, "ClearLabel")
    /\ UNCHANGED <<pvars, tvars, ovars, hvars, bm, finder, tcut, kvars>>

\* tree.FillSpan()
CallFillSpan ==
    /\ Ready("FillSpan")
    /\ tree' = FillSpan(tree)
    /\ tlast' = Op("FillSpan", [panic |-> FALSE])
    /\ hist' = Append(hist, "FillSpan")
    /\ UNCHANGED <<pvars, tvars, ovars, hvars, bm, finder, tcut, kvars>>

\* tree.FillHead(f)
CallFillHead ==
    /\ Ready("FillHead")
    /\ \E f \in Finders :
          \E r \in {FillHead(tree, f)} :
             /\ tree' = r.tree
             /\ finder' = f
             /\ tlast' = Op("FillHead", r)
    /\ hist' = Append(hist, "FillHead")
    /\ UNCHANGED <<pvars, tvars, ovars, hvars, bm, tcut, kvars>>

\* tree.FillHeadLeaf()
CallFillHeadLeaf ==
    /\ Ready("FillHeadLeaf")
    /\ \E r \in {FillHeadLeaf(tree)} :
          /\ tree' = r.tree
          /\ tlast' = Op("FillHeadLeaf", r)
    /\ hist' = Append(hist, "FillHeadLeaf")
    /\ UNCHANGED <<pvars, tvars, ovars, hvars, bm, finder, tcut, kvars>>

\* tree.Fill(flags, m, f) on a tree as it was parsed, before any of the
\* three fills above
CallFill ==
    /\ Ready("FillSpan")
    /\ "Disconnect" \notin Range(hist)
    /\ \E flags \in 0..FILL_EVERYTHING, m \in {"nil", "m"}, f \in Finders :
          \E r \in {Fill(tree, bm, flags, m, f)} :
             /\ tree' = r.tree
             /\ bm' = r.bm
             /\ finder' = f
             /\ tlast' = [Op("Fill", r) EXCEPT !.flags = flags, !.m = m]
    /\ hist' = Append(hist, "Fill")
    /\ UNCHANGED <<pvars, tvars, ovars, hvars, tcut, kvars>>

\* tree.Topology.AddNode(), after the annotations
CallTreeAddNode ==
    /\ Ready("AddNode")
    /\ hist # <<>>
    /\ Last(hist) \in {"FillSpan", "FillHeadLeaf"}
    /\ tree' = [tree EXCEPT !.Topology = TAddNode(tree.Topology)]
    /\ tlast' = Op("AddNode", [panic |-> FALSE])
    /\ hist' = Append(hist, "AddNode")
    /\ UNCHANGED <<pvars, tvars, ovars, hvars, bm, finder, tcut, kvars>>

\* tree.Topsort()
CallTreeTopsort ==
    /\ Ready("Topsort")
    /\ \E r \in {TreeTopsort(tree)} :
          /\ tree' = r.tree
          /\ tlast' = [Op("Topsort", r) EXCEPT !.oldToNew = r.oldToNew]
    /\ hist' = Append(hist, "Topsort")
    /\ UNCHANGED <<pvars, tvars, ovars, hvars, bm, finder, tcut, kvars>>

TreeNext ==
    \/ TreeDisconnect
    \/ CallRemapByLabel
    \/ ClearLabel
    \/ CallFillSpan
    \/ CallFillHead
    \/ CallFillHeadLeaf
    \/ CallFill
    \/ CallTreeAddNode
    \/ CallTreeTopsort

SpecTree == TreeInit /\ [][TreeNext]_vars

(***************************************************************************)
(* TableHeadFinder.FindHead on its own: a finder whose Table is nil or has *)
(* one rule, for the parent "a"; the rule is made by NewHeadRule from a    *)
(* list of labels, which may name a label twice, or is a literal with no   *)
(* Direction.                                                              *)
(***************************************************************************)
MaxChildren == 4
MaxMatch == 2

HeadLabels == {<<"a">>, <<"b">>, <<"c">>}

HeadRules ==
    {NewHeadRule(dir, match) :
        dir \in {HEAD_INITIAL, HEAD_FINAL},
        match \in Strings(HeadLabels, MaxMatch)}
    \cup {[Direction |-> UNKNOWN, Priority |-> <<>>]}

HeadTables == {<<>>} \cup {[l \in {<<"a">>} |-> rule] : rule \in HeadRules}

HeadsInit ==
    /\ p = NewParser(<<>>, EOF)
    /\ pre = p
    /\ ret = NoRet
    /\ calls = 0
    /\ all = NoAll
    /\ rt = NoRt
    /\ topo = NewEmptyTopo
    /\ told = topo
    /\ top = NoOp
    /\ otopo = NewEmptyTopology
    /\ olast = NoAppend
    /\ tree = ParseTree(NewParseTree)
    /\ bm = New
    /\ finder = FinalFinder
    /\ tcut = tree
    /\ hist = <<>>
    /\ tlast = NoFill
    /\ \E table \in HeadTables, fallback \in {UNKNOWN, HEAD_INITIAL, HEAD_FINAL},
          parent \in {<<"a">>, <<"b">>},
          children \in Strings(HeadLabels, MaxChildren) :
          harg = [finder |-> [Table |-> table, Fallback |-> fallback],
                  parent |-> parent, children |-> children]
    /\ hret = NoHead
    /\ NoTokens

\* finder.FindHead(parent, children)
CallFindHead ==
    /\ ~hret.done
    /\ \E r \in {FindHead(harg.finder, harg.parent, harg.children)} :
          hret' = [done |-> TRUE, panic |-> r.panic, i |-> r.i]
    /\ UNCHANGED <<pvars, tvars, ovars, avars, harg, kvars>>

HeadsNext == CallFindHead

SpecHeads == HeadsInit /\ [][HeadsNext]_vars

(***************************************************************************)
(* StripAnnotation on a parsed tree whose labels carry annotation: the     *)
(* tree is parsed from a unit of at most MaxStripNodes nodes with labels   *)
(* of StripLabels; Disconnect may come first, which turns a node that      *)
(* loses its children into a leaf.                                         *)
(***************************************************************************)
MaxStripNodes == 3

StripLabels ==
    {<<"N">>, <<"N", "-", "N", "=", "N">>, <<"N", "=", "N", "-", "N">>,
     <<"*", "N", "-", "N">>, <<"*", "=", "N">>, <<"-", "N", "-">>,
     <<"=", "N">>}

\* the token strings that are ts with each word replaced by a label
RECURSIVE Relabelled(_)
Relabelled(ts) ==
    IF ts = <<>> THEN {<<>>}
    ELSE {<<h>> \o r :
             h \in (IF Head(ts) \in {TOpen, TClose} THEN {Head(ts)}
                    ELSE StripLabels),
             r \in Relabelled(Tail(ts))}

\* the units whose words are all the same, one for each shape of tree
Shapes(n) == {u \in Units(n) : Range(u) \subseteq {TOpen, TClose, <<"a">>}}

StripInit ==
    /\ p = NewParser(<<>>, EOF)
    /\ pre = p
    /\ ret = NoRet
    /\ calls = 0
    /\ all = NoAll
    /\ rt = NoRt
    /\ topo = NewEmptyTopo
    /\ told = topo
    /\ top = NoOp
    /\ otopo = NewEmptyTopology
    /\ olast = NoAppend
    /\ \E u \in Shapes(MaxStripNodes) : \E v \in Relabelled(u) : tree = Parsed(v)
    /\ bm = New
    /\ finder = FinalFinder
    /\ tcut = tree
    /\ hist = <<>>
    /\ tlast = NoFill
    /\ harg = NoHeadArg
    /\ hret = NoHead
    /\ NoTokens

\* tree.StripAnnotation()
CallStripAnnotation ==
    /\ Ready("StripAnnotation")
    /\ \E r \in {StripAnnotation(tree)} :
          /\ tree' = r.tree
          /\ tlast' = Op("StripAnnotation", r)
    /\ hist' = Append(hist, "StripAnnotation")
    /\ UNCHANGED <<pvars, tvars, ovars, hvars, bm, finder, tcut, kvars>>

StripNext == TreeDisconnect \/ CallStripAnnotation

SpecStrip == StripInit /\ [][StripNext]_vars

(***************************************************************************)
(* RemoveNone on a parsed tree with empty categories: the tree is parsed   *)
(* from a unit of at most MaxNoneNodes nodes whose labels are -NONE- or a; *)
(* its user fills the heads and head leaves, disconnects a node, sorts and *)
(* removes the empty categories in any order, at most MaxNoneOps           *)
(* operations in all; a panic ends the run.                                *)
(***************************************************************************)
MaxNoneNodes == 6
MaxNoneOps == 3

NoneLabels == {NONE, <<"a">>}

\* the token strings that are ts with each word replaced by a label of L
RECURSIVE RelabelledWith(_, _)
RelabelledWith(ts, L) ==
    IF ts = <<>> THEN {<<>>}
    ELSE {<<h>> \o r :
             h \in (IF Head(ts) \in {TOpen, TClose} THEN {Head(ts)} ELSE L),
             r \in RelabelledWith(Tail(ts), L)}

\* the units of exactly n nodes whose words are all the same
NoneGen[n \in 0..MaxNoneNodes] ==
    LET node == IF n < 2 THEN {}
                ELSE (IF n = 2 THEN {<<(<<"a">>), (<<"a">>)>>} ELSE {})
                     \cup {<<(<<"a">>)>> \o k : k \in NoneGen[n - 1].kids}
        wrap(x) == <<TOpen>> \o x \o <<TClose>>
        kids == {wrap(x) : x \in node}
                \cup UNION {{wrap(x) \o y : x \in NoneGen[j].node,
                                            y \in NoneGen[n - j].kids} :
                            j \in 2..(n - 2)}
    IN [node |-> node, kids |-> kids]

NoneShapes ==
    {EmptyUnit} \cup UNION {{UnitOf(x) : x \in NoneGen[k].node} :
                              k \in 2..MaxNoneNodes}

\* the operation may come now
NoneReady == ~tlast.panic /\ Len(hist) < MaxNoneOps

NoneInit ==
    /\ p = NewParser(<<>>, EOF)
    /\ pre = p
    /\ ret = NoRet
    /\ calls = 0
    /\ all = NoAll
    /\ rt = NoRt
    /\ topo = NewEmptyTopo
    /\ told = topo
    /\ top = NoOp
    /\ otopo = NewEmptyTopology
    /\ olast = NoAppend
    /\ \E u \in NoneShapes : \E v \in RelabelledWith(u, NoneLabels) :
          tree = Parsed(v)
    /\ bm = New
    /\ finder = FinalFinder
    /\ tcut = tree
    /\ hist = <<>>
    /\ tlast = NoFill
    /\ harg = NoHeadArg
    /\ hret = NoHead
    /\ NoTokens

\* tree.Fill(FILL_HEAD_LEAF, nil, f): FillHead, then FillHeadLeaf
NoneFillHeadLeaf ==
    /\ NoneReady
    /\ \E f \in Finders :
          \E r \in {Fill(tree, bm, FILL_HEAD_LEAF, "nil", f)} :
             /\ tree' = r.tree
             /\ finder' = f
             /\ tlast' = [Op("Fill", r) EXCEPT !.flags = FILL_HEAD_LEAF]
    /\ hist' = Append(hist, "Fill")
    /\ UNCHANGED <<pvars, tvars, ovars, hvars, bm, tcut, kvars>>

\* tree.Topology.Disconnect(remove), one node flagged
NoneDisconnect ==
    /\ NoneReady
    /\ \E x \in TNodes(tree.Topology) :
          \E remove \in {[n \in 1..TNumNodes(tree.Topology) |-> n = x + 1]} :
             /\ tree' = [tree EXCEPT
                           !.Topology = Disconnect(tree.Topology, remove)]
             /\ tlast' = [Op("Disconnect", [panic |-> FALSE])
                            EXCEPT !.remove = remove]
    /\ hist' = Append(hist, "Disconnect")
    /\ UNCHANGED <<pvars, tvars, ovars, hvars, bm, finder, tcut, kvars>>

\* tree.Topsort()
NoneTopsort ==
    /\ NoneReady
    /\ \E r \in {TreeTopsort(tree)} :
          /\ tree' = r.tree
          /\ tlast' = [Op("Topsort", r) EXCEPT !.oldToNew = r.oldToNew]
    /\ hist' = Append(hist, "Topsort")
    /\ UNCHANGED <<pvars, tvars, ovars, hvars, bm, finder, tcut, kvars>>

\* tree.RemoveNone()
CallRemoveNone ==
    /\ NoneReady
    /\ \E r \in {RemoveNone(tree)} :
          /\ tree' = r.tree
          /\ tlast' = Op("RemoveNone", r)
    /\ hist' = Append(hist, "RemoveNone")
    /\ UNCHANGED <<pvars, tvars, ovars, hvars, bm, finder, tcut, kvars>>

NoneNext ==
    \/ NoneFillHeadLeaf
    \/ NoneDisconnect
    \/ NoneTopsort
    \/ CallRemoveNone

SpecNone == NoneInit /\ [][NoneNext]_vars

(***************************************************************************)
(* The tokenizer on its own: nextToken and peekToken called in any order   *)
(* on a Parser over any bytes of TokBytes, at most MaxTokBytes of them,    *)
(* until a nextToken has reported the end of the byte source; at most      *)
(* MaxPeeks peekToken calls come in a row.                                 *)
(***************************************************************************)
MaxTokBytes == 4
MaxPeeks == 3

TokBytes == {"(", ")", " ", "\t", "\n", "a"}

\* no nextToken has returned an error yet
Reading == IF delivered = <<>> THEN TRUE ELSE Last(delivered).err = ErrNil

TokensInit ==
    /\ \E in \in Strings(TokBytes, MaxTokBytes), end \in {EOF, IOFault} :
          p = NewParser(in, end)
    /\ pre = p
    /\ ret = NoRet
    /\ calls = 0
    /\ all = NoAll
    /\ rt = NoRt
    /\ topo = NewEmptyTopo
    /\ told = topo
    /\ top = NoOp
    /\ otopo = NewEmptyTopology
    /\ olast = NoAppend
    /\ NoAnnotation

\* token, kind, err := p.nextToken()
CallNextToken ==
    /\ Reading
    /\ \E r \in {nextToken(p)} :
          /\ p' = r.p
          /\ tk' = [name |-> "nextToken",
                    res |-> [token |-> r.token, kind |-> r.kind, err |-> r.err],
                    before |-> p, prevname |-> tk.name, prev |-> tk.res,
                    run |-> 0]
          /\ delivered' = Append(delivered, [token |-> r.token,
                                             kind |-> r.kind, err |-> r.err])
    /\ UNCHANGED <<pre, ret, calls, all, rt, tvars, ovars, avars, hvars, cc>>

\* token, kind, err := p.peekToken()
CallPeekToken ==
    /\ Reading
    /\ tk.run < MaxPeeks
    /\ \E r \in {peekToken(p)} :
          /\ p' = r.p
          /\ tk' = [name |-> "peekToken",
                    res |-> [token |-> r.token, kind |-> r.kind, err |-> r.err],
                    before |-> p, prevname |-> tk.name, prev |-> tk.res,
                    run |-> tk.run + 1]
    /\ UNCHANGED <<pre, ret, calls, all, rt, tvars, ovars, avars, hvars,
                   delivered, cc>>

TokensNext == CallNextToken \/ CallPeekToken

SpecTokens == TokensInit /\ [][TokensNext]_vars

(***************************************************************************)
(* Components of the Topology that keeps a parent array, step by step: one *)
(* action for each pass of the loop over t.parent and for each iteration   *)
(* of the two loops of find.  The topology is a forest of at most          *)
(* MaxCompNodes nodes, built by AddNode and by AppendChild(parent, child)  *)
(* for the children in the order of their ids.  A step is taken whenever   *)
(* one is possible.                                                        *)
(***************************************************************************)
MaxCompNodes == 4

\* the k-th node above c in the parent array par, NoNodeId when there is none
RECURSIVE Up(_, _, _)
Up(par, c, k) ==
    IF c = NoNodeId \/ k = 0 THEN c ELSE Up(par, par[c + 1], k - 1)

\* the topologies with n nodes and no root set in which every node has at
\* most one parent and none is above itself
Forests(n) ==
    {[root |-> NoNodeId,
      parent |-> par,
      children |-> [q \in 1..n |->
                      SelectSeq([c \in 1..n |-> c - 1],
                                LAMBDA c : par[c + 1] = q - 1)]] :
        par \in {f \in [1..n -> {NoNodeId} \cup (0..(n - 1))] :
                    \A c \in 0..(n - 1) : Up(f, c, n) = NoNodeId}}

OCompInit ==
    /\ p = NewParser(<<>>, EOF)
    /\ pre = p
    /\ ret = NoRet
    /\ calls = 0
    /\ all = NoAll
    /\ rt = NoRt
    /\ topo = NewEmptyTopo
    /\ told = topo
    /\ top = NoOp
    /\ \E n \in 0..MaxCompNodes : otopo \in Forests(n)
    /\ olast = NoAppend
    /\ NoAnnotation

\* m := t.Components(): p is made, p[i] = i
OCompStart ==
    /\ cc.pc = "idle"
    /\ cc' = [cc EXCEPT !.pc = "loop",
                        !.p = [i \in 1..NumNodes(otopo) |-> i - 1]]
    /\ UNCHANGED <<pvars, tvars, ovars, avars, hvars, tk, delivered>>

\* one pass of  for child, parent := range t.parent:  a node without a
\* parent is passed over, otherwise union begins with a := find(parent, p);
\* after the last pass m is filled from p and returned
OCompLoop ==
    /\ cc.pc = "loop"
    /\ cc' = IF cc.child >= NumNodes(otopo)
             THEN [cc EXCEPT !.pc = "done",
                             !.m = [c \in Range(cc.p) |->
                                      SelectSeq([i \in 1..Len(cc.p) |-> i - 1],
                                                LAMBDA i : cc.p[i + 1] = c)]]
             ELSE IF otopo.parent[cc.child + 1] = NoNodeId
             THEN [cc EXCEPT !.child = @ + 1]
             ELSE [cc EXCEPT !.pc = "find1", !.who = "a",
                             !.n = otopo.parent[cc.child + 1],
                             !.r = otopo.parent[cc.child + 1]]
    /\ UNCHANGED <<pvars, tvars, ovars, avars, hvars, tk, delivered>>

\* find:  for p[r] != r { r = p[r] }
OFindClimb ==
    /\ cc.pc = "find1"
    /\ cc' = IF cc.p[cc.r + 1] # cc.r
             THEN [cc EXCEPT !.r = cc.p[cc.r + 1]]
             ELSE [cc EXCEPT !.pc = "find2"]
    /\ UNCHANGED <<pvars, tvars, ovars, avars, hvars, tk, delivered>>

\* find:  for n != r { m := n; p[n] = r; n = m }
OFindCompress ==
    /\ cc.pc = "find2"
    /\ cc.n # cc.r
    /\ \E m \in {cc.n} :
          cc' = [cc EXCEPT !.p[cc.n + 1] = cc.r, !.n = m,
                           !.spins = (@ + 1) % 2]
    /\ UNCHANGED <<pvars, tvars, ovars, avars, hvars, tk, delivered>>

\* find returns r: to union as a, which goes on with b := find(child, p),
\* or as b, after which p[b] = a and the pass is over
OFindReturn ==
    /\ cc.pc = "find2"
    /\ cc.n = cc.r
    /\ cc' = IF cc.who = "a"
             THEN [cc EXCEPT !.pc = "find1", !.who = "b", !.a = cc.r,
                             !.n = cc.child, !.r = cc.child]
             ELSE [cc EXCEPT !.pc = "loop", !.p[cc.r + 1] = cc.a,
                             !.child = @ + 1]
    /\ UNCHANGED <<pvars, tvars, ovars, avars, hvars, tk, delivered>>

OCompNext ==
    \/ OCompStart
    \/ OCompLoop
    \/ OFindClimb
    \/ OFindCompress
    \/ OFindReturn

SpecOComponents == OCompInit /\ [][OCompNext]_vars /\ WF_vars(OCompNext)

(***************************************************************************)
(* The grammar of the bracketed format, stated on token strings, as the    *)
(* reference the parser is compared with.                                  *)
(*     tree = "(" inner ")"     inner = ")" / node ")"                     *)
(*     node = "(" category (word / children) ")"   children = node {node}  *)
(***************************************************************************)
Delim == Space \cup Paren

\* a sequence given as a function, written out as a tuple
Tuple(f) == f \o <<>>

\* the tokens of the bytes from i on: every parenthesis, and every maximal
\* run of bytes that are neither white space nor parentheses
RECURSIVE RefTokensFrom(_, _)
RefTokensFrom(in, i) ==
    IF i > Len(in) THEN <<>>
    ELSE IF in[i] \in Space THEN RefTokensFrom(in, i + 1)
    ELSE IF in[i] \in Paren THEN <<(<<in[i]>>)>> \o RefTokensFrom(in, i + 1)
    ELSE LET j == Min({k \in i..Len(in) :
                         k = Len(in) \/ in[k + 1] \in Delim})
         IN <<SubSeq(in, i, j)>> \o RefTokensFrom(in, j + 1)

RefTokens(in) == RefTokensFrom(in, 1)

\* the tokens a parser in state q has still to deliver
Pending(q) ==
    (IF q.peek /\ q.err = ErrNil THEN <<q.token>> ELSE <<>>)
    \o RefTokensFrom(q.in, q.pos + 1)

KindOf(tok) ==
    IF tok = TOpen THEN kOpen ELSE IF tok = TClose THEN kClose ELSE kWord

KindAt(ts, f) == IF f \in 1..Len(ts) THEN KindOf(ts[f]) ELSE "end"

\* the word at f names a category: it follows a '('
IsCategory(ts, f) == KindAt(ts, f) = kWord /\ KindAt(ts, f - 1) = kOpen

\* what the grammar allows as token f of a unit whose tokens before f are
\* in order and leave d parentheses open, and the error that names it
Expect(ts, f, d) ==
    IF f <= 2 THEN [kinds |-> {kOpen}, err |-> NoOpenParen]
    ELSE IF f = 3 THEN [kinds |-> {kClose, kWord}, err |-> NoCategory]
    ELSE IF KindAt(ts, f - 1) = kOpen
    THEN [kinds |-> {kWord}, err |-> NoCategory]
    ELSE IF IsCategory(ts, f - 1)
    THEN [kinds |-> {kWord, kOpen}, err |-> NoWordOrOpenParen]
    ELSE IF KindAt(ts, f - 1) = kWord
    THEN [kinds |-> {kClose}, err |-> NoCloseParen]
    ELSE IF d >= 2
    THEN [kinds |-> {kOpen, kClose}, err |-> NoCloseParen]
    ELSE [kinds |-> {kClose}, err |-> NoCloseParen]

DepthStep(tok) == IF tok = TOpen THEN 1 ELSE IF tok = TClose THEN -1 ELSE 0

\* reads ts from token f on, d parentheses open: the length of the
\* well-formed unit ts begins with (unit), or else the first token out of
\* place (fail, Len+1 for the end of input) and the error naming what the
\* grammar expected there
RECURSIVE Scan(_, _, _)
Scan(ts, f, d) ==
    IF KindAt(ts, f) \notin Expect(ts, f, d).kinds
    THEN [unit |-> 0, fail |-> f, err |-> Expect(ts, f, d).err]
    ELSE IF d + DepthStep(ts[f]) = 0
    THEN [unit |-> f, fail |-> 0, err |-> ErrNil]
    ELSE Scan(ts, f + 1, d + DepthStep(ts[f]))

UnitLen(ts) == Scan(ts, 1, 0).unit

FailPos(ts) == Scan(ts, 1, 0).fail

RefError(ts) == Scan(ts, 1, 0).err

\* open minus closed parentheses among the first k tokens
Depth(ts, k) ==
    Cardinality({i \in 1..k : ts[i] = TOpen})
    - Cardinality({i \in 1..k : ts[i] = TClose})

\* the tree of a well-formed unit u: one node per word, numbered in input
\* order; a leaf word hangs under the category before it, a category under
\* the category of the enclosing parenthesis
WordPosSeq(u) == SelectSeq(Tuple([i \in 1..Len(u) |-> IF KindOf(u[i]) = kWord
                                                      THEN i ELSE 0]),
                           LAMBDA i : i > 0)

\* for depths D and word positions W: the position of the parent's word
\* of the word at W[m], 0 for the root
ParentPos(u, D, i) ==
    IF ~IsCategory(u, i) THEN i - 1
    ELSE IF i = 3 THEN 0
    ELSE 1 + Max({r \in 2..(i - 2) : u[r] = TOpen /\ D[r] = D[i - 1] - 1})

RefTree(u) ==
    LET W == WordPosSeq(u)
        N == Len(W)
        D == Tuple([k \in 1..Len(u) |-> Depth(u, k)])
        \* the id of the word at position i
        id == Tuple([i \in 1..Len(u) |-> Cardinality({m \in 1..N : W[m] < i})])
        par == Tuple([m \in 1..N |->
                        IF ParentPos(u, D, W[m]) = 0 THEN NoNodeId
                        ELSE id[ParentPos(u, D, W[m])]])
        ids == Tuple([m \in 1..N |-> m - 1])
    IN [nil |-> FALSE,
        Topology |->
           [root |-> IF N = 0 THEN NoNodeId ELSE 0,
            parent |-> par,
            children |-> Tuple([m \in 1..N |->
                              SelectSeq(ids, LAMBDA c : par[c + 1] = m - 1)])],
        Label |-> Tuple([m \in 1..N |-> u[W[m]]])]

\* the well-formed units ts begins with, one after the other
RECURSIVE RefUnits(_)
RefUnits(ts) ==
    LET k == UnitLen(ts)
    IN IF k = 0 THEN <<>>
       ELSE <<SubSeq(ts, 1, k)>> \o RefUnits(SubSeq(ts, k + 1, Len(ts)))

\* what is left of ts after them
RefRest(ts) == SubSeq(ts, Len(Flatten(RefUnits(ts))) + 1, Len(ts))

\* the nodes of the subtree under n
RECURSIVE Under(_, _)
Under(t, n) ==
    {n} \cup UNION {Under(t, t.children[n + 1][i]) :
                      i \in 1..Len(t.children[n + 1])}

(***************************************************************************)
(* The statements about the parser.  `called` says that ret and pre hold   *)
(* the result and the starting point of a Parser.Next call.                *)
(***************************************************************************)
called == calls > 0

\* the tokens in front of the last Parser.Next call
Before == Pending(pre)

\* C1: when the next tokens are a well-formed non-empty unit, Parser.Next
\* returns no error and the tree of the unit numbered in pre-order: Root is
\* 0, a category's id is below the ids of all nodes inside it, children
\* lists are in input order, Label[n] is the word that created n, there are
\* as many labels as nodes, and a category followed by a word has that word
\* as its only child, a leaf, numbered right after it.
C1_PreOrderTree ==
    called =>
        LET ts == Before
            k == UnitLen(ts)
            u == SubSeq(ts, 1, k)
            W == WordPosSeq(u)
            t == ret.tree.Topology
        IN k > 4 =>
           /\ ret.err = ErrNil
           /\ ~ret.tree.nil
           /\ ret.tree = RefTree(u)
           /\ t.root = 0
           /\ Len(ret.tree.Label) = NumNodes(t)
           /\ NumNodes(t) = Len(W)
           /\ \A n \in 0..(NumNodes(t) - 1) :
                 /\ \A m \in Under(t, n) \ {n} : n < m
                 /\ \A i \in 1..(Len(t.children[n + 1]) - 1) :
                       t.children[n + 1][i] < t.children[n + 1][i + 1]
                 /\ ret.tree.Label[n + 1] = u[W[n + 1]]
                 /\ (IsCategory(u, W[n + 1]) /\ KindAt(u, W[n + 1] + 1) = kWord)
                       => /\ t.children[n + 1] = <<n + 1>>
                          /\ Leaf(t, n + 1)

\* C1 witness: a tree of five nodes with a node of two children was parsed
C1_Witness ==
    /\ called
    /\ ret.err = ErrNil
    /\ NumNodes(ret.tree.Topology) = 5
    /\ Len(ret.tree.Topology.children[1]) = 2
    /\ UnitLen(Before) > 4

\* C2: the empty-tree form, with any white space between its four
\* parentheses, is no error: Parser.Next returns a tree with Root =
\* NoNodeId, no nodes and no labels.
C2_NoParse ==
    called =>
        LET ts == Before
        IN (Len(ts) >= 4 /\ SubSeq(ts, 1, 4) = EmptyUnit) =>
              /\ ret.err = ErrNil
              /\ ~ret.tree.nil
              /\ ret.tree.Topology.root = NoNodeId
              /\ NumNodes(ret.tree.Topology) = 0
              /\ ret.tree.Label = <<>>

\* C2 witness: the four parentheses came with white space between them
C2_Witness ==
    /\ called
    /\ pre.pos = 0
    /\ Len(pre.in) >= 8
    /\ SubSeq(pre.in, 1, 8) = <<"\n", "(", "\t", "(", " ", ")", "\n", ")">>
    /\ ret.err = ErrNil

\* C3: when Parser.Next fails with at least one token of the unit read, it
\* returns no tree and the error that names what the grammar expected at
\* the first token out of place; the four errors differ from each other
\* and from io.EOF.
C3_ErrorNamesExpected ==
    /\ Cardinality({NoOpenParen, NoCategory, NoWordOrOpenParen,
                    NoCloseParen, EOF}) = 5
    /\ (called /\ ret.err # ErrNil) =>
          LET ts == Before
              sc == Scan(ts, 1, 0)
          IN ts # <<>> =>
                /\ ret.tree.nil
                /\ sc.unit = 0
                /\ ret.err = sc.err

\* C3 witness: ')' was missing after a children list
C3_Witness ==
    /\ called
    /\ ret.err = NoCloseParen
    /\ LET ts == Before
           f == FailPos(ts)
       IN /\ f >= 9
          /\ KindAt(ts, f - 1) = kClose
          /\ Depth(ts, f - 1) >= 2

\* the units of the whole input, when it is nothing but well-formed units
WholeUnits == RefUnits(RefTokens(p.in))

\* C4: Parser.Next returns the end condition of the byte source exactly
\* when no token is left in front of the call; with a token read it never
\* returns io.EOF; so the call after the last of a sequence of well-formed
\* units returns io.EOF.
C4_EOFOnlyAtStart ==
    called =>
        LET ts == Before
        IN /\ (ret.err = pre.end) <=> (ts = <<>>)
           /\ ts # <<>> => ret.err # EOF
           /\ (~all.done /\ ret.err # p.end) =>
                 LET all_ts == RefTokens(p.in)
                     us == RefUnits(all_ts)
                 IN ~(/\ Len(Flatten(us)) = Len(all_ts)
                      /\ calls = Len(us) + 1)

\* C4 witness: two units were read and the third call met the end of input
C4_Witness ==
    /\ called
    /\ ~all.done
    /\ p.end = EOF
    /\ calls = 3
    /\ ret.err = EOF
    /\ Len(WholeUnits) = 2
    /\ Len(Flatten(WholeUnits)) = Len(RefTokens(p.in))

\* C5: the text of a tree Parser.Next returned parses without error to a
\* tree with an Equal topology and the same labels.
C5_RoundTrip ==
    rt.done =>
        /\ rt.err = ErrNil
        /\ ~rt.tree.nil
        /\ Equal(Topo(rt.tree.Topology), Topo(ret.tree.Topology))
        /\ Len(rt.tree.Label) = Len(ret.tree.Label)
        /\ \A n \in 1..Len(ret.tree.Label) : rt.tree.Label[n] = ret.tree.Label[n]

\* C5 witness: a tree of five nodes with a two-byte label went round
C5_Witness ==
    /\ rt.done
    /\ NumNodes(ret.tree.Topology) = 5
    /\ \E n \in 1..5 : Len(ret.tree.Label[n]) = 2
    /\ Len(rt.s) > 12

KidsOf(t, n) == Range(t.Children[n + 1])

\* the least set holding S and the children of its members
RECURSIVE Closure(_, _)
Closure(t, S) ==
    LET S1 == S \cup UNION {KidsOf(t, n) : n \in S}
    IN  IF S1 = S THEN S ELSE Closure(t, S1)

Reachable(t) == IF t.Root = NoNodeId THEN {} ELSE Closure(t, {t.Root})

\* the places (parent, position) of the reachable part that hold node c
PlacesOf(t, c) ==
    {<<n, i>> \in Reachable(t) \X (1..MaxEdges + 1) :
        i <= Len(t.Children[n + 1]) /\ t.Children[n + 1][i] = c}

\* some node is reached from Root along more than one walk
ReachedTwice(t) ==
    \E c \in Reachable(t) :
       Cardinality(PlacesOf(t, c)) >= (IF c = t.Root THEN 1 ELSE 2)

\* the pre-order of the tree under n: n, then the subtrees left to right
RECURSIVE PreOrder(_, _)
PreOrder(t, n) ==
    <<n>> \o Flatten([i \in 1..Len(t.Children[n + 1]) |->
                        PreOrder(t, t.Children[n + 1][i])])

Image(m, ids) == [i \in 1..Len(ids) |-> m[ids[i] + 1]]

sorted == top.name = "Topsort" /\ ~top.panic

\* C7: a Topsort that returns maps every unreachable old node to NoNodeId
\* and the reachable old nodes one-to-one onto 0..NumNodes-1 of the new
\* topology; the new children list of the image of a reachable node o is
\* o's old list with each id replaced by its image, in the same order; the
\* new topology has exactly one connected component if the old Root was not
\* NoNodeId and no node otherwise.
C7_TopsortKeepsReachable ==
    sorted =>
        LET R == Reachable(told)
            m == top.oldToNew
        IN  /\ Len(m) = TNumNodes(told)
            /\ \A o \in TNodes(told) \ R : m[o + 1] = NoNodeId
            /\ \A o \in R : m[o + 1] \in TNodes(topo)
            /\ \A a \in R : \A b \in R : a # b => m[a + 1] # m[b + 1]
            /\ TNodes(topo) = {m[o + 1] : o \in R}
            /\ \A o \in R :
                  topo.Children[m[o + 1] + 1] = Image(m, told.Children[o + 1])
            /\ IF told.Root # NoNodeId
               THEN Cardinality(DOMAIN Components(topo)) = 1
               ELSE TNumNodes(topo) = 0

\* a Topsort of a tree of three nodes or more that drops an unreachable node
\* and gives some node a new id
C7_Witness ==
    /\ sorted
    /\ TNumNodes(topo) >= 3
    /\ TNumNodes(told) > TNumNodes(topo)
    /\ \E o \in TNodes(told) : top.oldToNew[o + 1] \notin {o, NoNodeId}

\* C8: after a Topsort that returns, the ids are the depth-first pre-order
\* numbering of the tree under the old Root: Root is 0, or NoNodeId when the
\* tree is empty; every child's id is greater than its parent's; the ids in
\* a children list increase from left to right; and the nodes under a node
\* n are exactly n, n+1, ..., n+k-1.
C8_PreOrderIds ==
    sorted =>
        /\ topo.Root = (IF told.Root = NoNodeId THEN NoNodeId ELSE 0)
        /\ (TNumNodes(topo) = 0) = (told.Root = NoNodeId)
        /\ \A n \in TNodes(topo) :
              /\ \A c \in KidsOf(topo, n) : c > n
              /\ \A i \in 1..Len(topo.Children[n + 1]) :
                    \A j \in 1..Len(topo.Children[n + 1]) :
                       i < j => topo.Children[n + 1][i] < topo.Children[n + 1][j]
              /\ LET U == Closure(topo, {n})
                 IN  U = n..(n + Cardinality(U) - 1)
        /\ told.Root # NoNodeId =>
              LET po == PreOrder(told, told.Root)
              IN  Image(top.oldToNew, po) = [k \in 1..Len(po) |-> k - 1]

\* a Topsort of a tree where a subtree of two nodes comes before a sibling,
\* the ids not being in pre-order before
C8_Witness ==
    /\ sorted
    /\ TNumNodes(topo) >= 4
    /\ \E n \in TNodes(topo) :
          /\ Len(topo.Children[n + 1]) >= 2
          /\ topo.Children[topo.Children[n + 1][1] + 1] # <<>>
    /\ told.Children # topo.Children

\* C9: when some node can be reached from Root along the children lists more
\* than once, Topsort panics: it returns no mapping and nothing of the
\* topology is rewritten.  A Topsort that returns has kept every reachable
\* node.
C9_TopsortPanicsOnRevisit ==
    top.name = "Topsort" =>
        /\ ReachedTwice(told) => top.panic /\ topo = told /\ top.oldToNew = <<>>
        /\ ~top.panic => TNumNodes(topo) = Cardinality(Reachable(told))

\* Topsort on the cycle of two nodes: Root A, A's child B, B's child A
C9_Witness ==
    /\ top.name = "Topsort"
    /\ top.panic
    /\ \E a \in TNodes(told) : \E b \in TNodes(told) :
          /\ a # b
          /\ told.Root = a
          /\ told.Children[a + 1] = <<b>>
          /\ told.Children[b + 1] = <<a>>

\* s with the members of F deleted
RECURSIVE Without(_, _)
Without(s, F) ==
    IF s = <<>> THEN <<>>
    ELSE (IF Head(s) \in F THEN <<>> ELSE <<Head(s)>>) \o Without(Tail(s), F)

\* C10: Disconnect(remove) leaves as many nodes; every children list, that
\* of a flagged node too, is its old contents with exactly the flagged ids
\* deleted and the others in their old order; Root becomes NoNodeId if Root
\* was flagged and is unchanged otherwise.
C10_Disconnect ==
    top.name = "Disconnect" =>
        LET F == {n \in TNodes(told) : top.remove[n + 1]}
        IN  /\ TNumNodes(topo) = TNumNodes(told)
            /\ \A n \in TNodes(told) :
                  topo.Children[n + 1] = Without(told.Children[n + 1], F)
            /\ topo.Root = (IF told.Root \in F THEN NoNodeId ELSE told.Root)

\* a Disconnect that deletes a flagged id from a list and keeps another one
\* of that list, the flagged node keeping a child of its own
C10_Witness ==
    /\ top.name = "Disconnect"
    /\ \E n \in TNodes(told) : \E f \in KidsOf(told, n) :
          /\ top.remove[f + 1]
          /\ ~top.remove[n + 1]
          /\ topo.Children[n + 1] # <<>>
          /\ topo.Children[f + 1] # <<>>

\* the nodes joined to a member of S by children edges taken either way
RECURSIVE Linked(_, _)
Linked(t, S) ==
    LET S1 == S \cup UNION {KidsOf(t, n) : n \in S}
                \cup {n \in TNodes(t) : KidsOf(t, n) \cap S # {}}
    IN  IF S1 = S THEN S ELSE Linked(t, S1)

\* C11: Components returns a partition of all the nodes, dangling ones
\* included: every node is in exactly one list and once in it; two nodes are
\* in the same list exactly when children edges, taken in either direction,
\* join them; every key is a member of its own list; an isolated node is
\* alone under its own key; the empty topology gives the empty map.
C11_Components ==
    top.name = "Components" =>
        LET m == top.comps
        IN  /\ \A c \in DOMAIN m :
                  /\ c \in Range(m[c])
                  /\ Range(m[c]) = Linked(topo, {c})
                  /\ Len(m[c]) = Cardinality(Range(m[c]))
            /\ \A n \in TNodes(topo) :
                  Cardinality({c \in DOMAIN m : n \in Range(m[c])}) = 1
            /\ \A n \in TNodes(topo) :
                  Linked(topo, {n}) = {n} => n \in DOMAIN m /\ m[n] = <<n>>
            /\ TNumNodes(topo) = 0 => DOMAIN m = {}

\* Components on a topology of an isolated node and a component of three
\* nodes, one of them with two parents
C11_Witness ==
    /\ top.name = "Components"
    /\ Cardinality(DOMAIN top.comps) = 2
    /\ \E c \in DOMAIN top.comps : Len(top.comps[c]) = 3
    /\ \E n \in TNodes(topo) :
          Cardinality({q \in TNodes(topo) : n \in KidsOf(topo, q)}) = 2

(***************************************************************************)
(* The statements about AppendChild, on the two Topology types.            *)
(***************************************************************************)
\* node b is in some children list of t
HasParent(t, b) == \E q \in TNodes(t) : b \in KidsOf(t, q)

did(name) == tlast.name = name /\ ~tlast.panic

IsLeaf(t, n) == Len(t.Children[n + 1]) = 0

\* the leaves under Root from left to right
Leaves(t) ==
    IF t.Root = NoNodeId THEN <<>>
    ELSE SelectSeq(PreOrder(t, t.Root), LAMBDA n : IsLeaf(t, n))

PosIn(s, x) == CHOOSE i \in 1..Len(s) : s[i] = x

\* what FillSpan leaves for the nodes under Root
SpansUnderRoot(T) ==
    LET t == T.Topology
    IN  /\ \A n \in Reachable(t) :
              IF IsLeaf(t, n)
              THEN T.Span[n + 1] = [Left |-> PosIn(Leaves(t), n) - 1,
                                    Right |-> PosIn(Leaves(t), n)]
              ELSE /\ T.Span[n + 1].Left = T.Span[t.Children[n + 1][1] + 1].Left
                   /\ T.Span[n + 1].Right = T.Span[Last(t.Children[n + 1]) + 1].Right
                   /\ \A i \in 1..(Len(t.Children[n + 1]) - 1) :
                         T.Span[t.Children[n + 1][i] + 1].Right
                            = T.Span[t.Children[n + 1][i + 1] + 1].Left
        /\ T.Span[t.Root + 1] = [Left |-> 0, Right |-> Len(Leaves(t))]

\* C14 as stated: after FillSpan on a tree with a Root, Span has NumNodes
\* entries; a leaf under Root spans [k, k+1), k its place among the leaves
\* from the left; an internal node spans from the Left of its first child to
\* the Right of its last, the spans of neighbouring children meet, and Root
\* spans [0, number of leaves); and for the empty tree, Root = NoNodeId,
\* Span is empty.
C14_FillSpanEmptyTree ==
    did("FillSpan") =>
        IF tree.Topology.Root # NoNodeId
        THEN /\ Len(tree.Span) = TNumNodes(tree.Topology)
             /\ SpansUnderRoot(tree)
        ELSE tree.Span = <<>>

\* C14: after FillSpan, Span has NumNodes entries whatever Root is; with a
\* Root the nodes under it have the spans stated above; without one no entry
\* is written, so Span is empty only when the Topology has no node.
C14_FillSpan ==
    did("FillSpan") =>
        /\ Len(tree.Span) = TNumNodes(tree.Topology)
        /\ tree.Topology.Root # NoNodeId => SpansUnderRoot(tree)
        /\ tree.Topology.Root = NoNodeId =>
              tree.Span = Resized(tlast.before.Span,
                                  TNumNodes(tree.Topology), ZeroSpan)
        /\ \A n \in TNodes(tree.Topology) \ Reachable(tree.Topology) :
              tree.Span[n + 1]
                 = Resized(tlast.before.Span, TNumNodes(tree.Topology),
                           ZeroSpan)[n + 1]

\* FillSpan on a tree of two pre-terminals left with a node outside the tree
\* under Root
C14_Witness ==
    /\ did("FillSpan")
    /\ tree.Topology.Root # NoNodeId
    /\ Len(tree.Topology.Children[tree.Topology.Root + 1]) = 2
    /\ Len(Leaves(tree.Topology)) = 2
    /\ Reachable(tree.Topology) # TNodes(tree.Topology)

\* FillSpan on a Topology of several nodes whose Root was disconnected
C14_RootlessWitness ==
    /\ did("FillSpan")
    /\ tree.Topology.Root = NoNodeId
    /\ TNumNodes(tree.Topology) > 1

\* arrays FillHeadLeaf may find in HeadLeaf: nil, zeros, the ids turned
\* round, and a longer array
OldHeadLeafs(n) ==
    {<<>>, [i \in 1..n |-> 0], [i \in 1..n |-> n - i],
     [i \in 1..n + 1 |-> n - 1]}

\* C15: after FillHead and then FillHeadLeaf, HeadLeaf has NumNodes entries;
\* the head leaf of a leaf is the leaf itself and that of any other node is
\* the head leaf of its head child, so it is a leaf under the node; and
\* FillHeadLeaf gives the same array whatever HeadLeaf held before, also
\* when it is called again.
C15_HeadLeaf ==
    did("FillHeadLeaf") =>
        LET t == tree.Topology
            hl == tree.HeadLeaf
        IN  /\ Len(hl) = TNumNodes(t)
            /\ \A n \in TNodes(t) :
                  /\ IF IsLeaf(t, n) THEN hl[n + 1] = n
                     ELSE hl[n + 1]
                             = hl[t.Children[n + 1][tree.Head[n + 1] + 1] + 1]
                  /\ hl[n + 1] \in TNodes(t)
                  /\ IsLeaf(t, hl[n + 1])
                  /\ hl[n + 1] \in Closure(t, {n})
            /\ FillHeadLeaf(tree) = [panic |-> FALSE, tree |-> tree]
            /\ \A old \in OldHeadLeafs(TNumNodes(t)) :
                  FillHeadLeaf([tlast.before EXCEPT !.HeadLeaf = old])
                     = [panic |-> FALSE, tree |-> tree]

\* FillHead and FillHeadLeaf on a tree where the head leaf of Root is not its
\* head child and some node has two children
C15_Witness ==
    /\ did("FillHeadLeaf")
    /\ "FillHead" \in Range(hist)
    /\ tree.Topology.Root # NoNodeId
    /\ tree.HeadLeaf[tree.Topology.Root + 1]
          \notin KidsOf(tree.Topology, tree.Topology.Root)
    /\ \E n \in TNodes(tree.Topology) : Len(tree.Topology.Children[n + 1]) = 2

\* the places of the children whose LabelPriority is least
BestPlaces(rule, children) ==
    {j \in 0..(Len(children) - 1) :
        \A k \in 1..Len(children) :
           LabelPriority(rule, children[j + 1])
              <= LabelPriority(rule, children[k])}

\* C16: FindHead on a list of one child or more returns 0 under a
\* head-initial fallback and len(children)-1 under a head-final fallback when
\* the parent has no rule; under a rule it returns the leftmost (head-initial)
\* or the rightmost (head-final) place of a child of least LabelPriority; what
\* it returns is a place of the list.
C16_FindHead ==
    hret.done /\ Len(harg.children) > 0 =>
        LET f == harg.finder
            n == Len(harg.children)
            ruled == harg.parent \in DOMAIN f.Table
            rule == f.Table[harg.parent]
        IN  /\ ~hret.panic => hret.i \in 0..(n - 1)
            /\ ~ruled /\ f.Fallback = HEAD_INITIAL =>
                  ~hret.panic /\ hret.i = 0
            /\ ~ruled /\ f.Fallback = HEAD_FINAL =>
                  ~hret.panic /\ hret.i = n - 1
            /\ ruled /\ rule.Direction = HEAD_INITIAL =>
                  ~hret.panic /\ hret.i = Min(BestPlaces(rule, harg.children))
            /\ ruled /\ rule.Direction = HEAD_FINAL =>
                  ~hret.panic /\ hret.i = Max(BestPlaces(rule, harg.children))

\* a head-final rule on children of which two share the least priority and
\* the last child does not have it
C16_Witness ==
    /\ hret.done
    /\ ~hret.panic
    /\ harg.parent \in DOMAIN harg.finder.Table
    /\ harg.finder.Table[harg.parent].Direction = HEAD_FINAL
    /\ Cardinality(BestPlaces(harg.finder.Table[harg.parent], harg.children)) = 2
    /\ hret.i < Len(harg.children) - 1
    /\ hret.i > Min(BestPlaces(harg.finder.Table[harg.parent], harg.children))

\* the routines Fill stands for, in their order: those the flags select,
\* FillHead also when only FILL_HEAD_LEAF is selected
Routines(flags) ==
    SelectSeq(<<FILL_LABEL_ID, FILL_SPAN, FILL_HEAD, FILL_HEAD_LEAF,
                FILL_UP_LINK>>,
              LAMBDA b : \/ Has(flags, b)
                         \/ b = FILL_HEAD /\ Has(flags, FILL_HEAD_LEAF))

\* one routine called by its user
Routine(b, s, m, f) ==
    IF b = FILL_LABEL_ID
    THEN (IF Len(s.tree.Label) = TNumNodes(s.tree.Topology)
          THEN RemapByLabel(s.tree, s.bm, m)
          ELSE RemapById(s.tree, s.bm, m))
    ELSE IF b = FILL_SPAN THEN Done(FillSpan(s.tree), s.bm)
    ELSE IF b = FILL_HEAD THEN FillHead(s.tree, f) @@ [bm |-> s.bm]
    ELSE IF b = FILL_HEAD_LEAF THEN FillHeadLeaf(s.tree) @@ [bm |-> s.bm]
    ELSE Done(FillUpLink(s.tree), s.bm)

\* the routines called one after the other until one panics
RECURSIVE OneByOne(_, _, _, _)
OneByOne(bs, s, m, f) ==
    IF bs = <<>> \/ s.panic THEN s
    ELSE OneByOne(Tail(bs), Routine(Head(bs), s, m, f), m, f)

\* C17: Fill(flags, m, finder) leaves the tree, and the shared Map, as the
\* selected routines called one by one in the order RemapByLabel/RemapById,
\* FillSpan, FillHead, FillHeadLeaf, FillUpLink leave them, for every set of
\* flags, a panic of one of them included; FILL_HEAD_LEAF alone fills Head
\* before HeadLeaf; FILL_LABEL_ID fills Id from Label when Label has NumNodes
\* entries and Label from Id otherwise; what is not selected stays.
C17_Fill ==
    tlast.name = "Fill" =>
        LET b == tlast.before
            fl == tlast.flags
            r == OneByOne(Routines(fl), Done(b, tlast.bm), tlast.m, finder)
            n == TNumNodes(b.Topology)
        IN  /\ r = [panic |-> tlast.panic, tree |-> tree, bm |-> bm]
            /\ ~tlast.panic =>
                  /\ Has(fl, FILL_HEAD_LEAF) =>
                        /\ tree.Head = FillHead([tree EXCEPT !.Head = b.Head],
                                                finder).tree.Head
                        /\ Len(tree.HeadLeaf) = n
                  /\ Has(fl, FILL_LABEL_ID) /\ Len(b.Label) = n =>
                        /\ tree.Label = b.Label
                        /\ tree.Id = [i \in 1..n |-> FindByString(bm, b.Label[i])]
                  /\ Has(fl, FILL_LABEL_ID) /\ Len(b.Label) # n =>
                        /\ tree.Id = b.Id
                        /\ tree.Label = [i \in 1..n |-> FindByInt(bm, b.Id[i])]
                  /\ ~Has(fl, FILL_LABEL_ID) =>
                        tree.Label = b.Label /\ tree.Id = b.Id /\ bm = tlast.bm
                  /\ ~Has(fl, FILL_SPAN) => tree.Span = b.Span
                  /\ ~Has(fl, FILL_HEAD) /\ ~Has(fl, FILL_HEAD_LEAF) =>
                        tree.Head = b.Head
                  /\ ~Has(fl, FILL_HEAD_LEAF) => tree.HeadLeaf = b.HeadLeaf
                  /\ ~Has(fl, FILL_UP_LINK) => tree.UpLink = b.UpLink
                  /\ tree.Topology = b.Topology

\* Fill with FILL_HEAD_LEAF alone on a tree with a node of two children
C17_Witness ==
    /\ did("Fill")
    /\ tlast.flags = FILL_HEAD_LEAF
    /\ \E n \in TNodes(tree.Topology) : Len(tree.Topology.Children[n + 1]) = 2
    /\ Len(tree.Head) = TNumNodes(tree.Topology)
    /\ Len(tree.HeadLeaf) = TNumNodes(tree.Topology)

\* Fill with FILL_LABEL_ID and no Map on a tree whose Label was set to nil
\* after its Id was filled: Label is back
C17_LabelFromIdWitness ==
    /\ did("Fill")
    /\ Has(tlast.flags, FILL_LABEL_ID)
    /\ tlast.m = "nil"
    /\ tlast.before.Label = <<>>
    /\ TNumNodes(tree.Topology) > 2
    /\ tree.Label = tcut.Label

\* the operations of the first order, after a Disconnect or on the tree as
\* it was parsed
FillThenSort ==
    <<"RemapByLabel", "FillSpan", "FillHead", "FillHeadLeaf", "Topsort">>

Undisconnected(h) ==
    IF h # <<>> /\ Head(h) = "Disconnect" THEN Tail(h) ELSE h

\* the second order: the tree of tcut sorted first, then the four fills with
\* the shared Map as it is now and the same finder
SortThenFill ==
    OneByOne(<<FILL_LABEL_ID, FILL_SPAN, FILL_HEAD, FILL_HEAD_LEAF>>,
             Done(TreeTopsort(tcut).tree, bm), "m", finder)

\* the first order went through
filledThenSorted ==
    /\ Undisconnected(hist) = FillThenSort
    /\ ~tlast.panic
    /\ tree.Map = "m"

\* the first order was stopped by the head finder
fillHeadAborted ==
    /\ Undisconnected(hist) = SubSeq(FillThenSort, 1, 3)
    /\ tlast.panic
    /\ tree.Map = "m"

\* what the test compares: Topology.Equal and the five arrays
Equiv(a, b) ==
    /\ Equal(a.Topology, b.Topology)
    /\ a.Label = b.Label
    /\ a.Id = b.Id
    /\ a.Span = b.Span
    /\ a.Head = b.Head
    /\ a.HeadLeaf = b.HeadLeaf

C18_AbortWitness ==
    /\ fillHeadAborted
    /\ ~SortThenFill.panic

\* the array a of the tree before is moved by the map m: the entry of every
\* kept old node o is at m[o] in the array b after, which has an entry for
\* every new node
Moved(a, b, m, numNodes) ==
    /\ Len(b) = numNodes
    /\ \A o \in 1..Len(m) : m[o] # NoNodeId => b[m[o] + 1] = a[o]

\* b is nil or has an entry for every new node; it holds a moved when a had
\* an entry for every old node and is nil otherwise
MovedOrDropped(a, b, m, oldNumNodes, numNodes) ==
    /\ b = <<>> \/ Len(b) = numNodes
    /\ IF Len(a) = oldNumNodes THEN Moved(a, b, m, numNodes) ELSE b = <<>>

\* C19 as stated: after ParseTree.Topsort each of Label, Id, Span, Head and
\* HeadLeaf is empty or has the new NumNodes entries; an array that had the
\* old NumNodes entries has the entry of every kept old node o at map[o],
\* and an array of any other length is empty.
C19_ArraysMoved ==
    did("Topsort") =>
        LET b == tlast.before
            m == tlast.oldToNew
            old == TNumNodes(b.Topology)
            new == TNumNodes(tree.Topology)
        IN  /\ MovedOrDropped(b.Label, tree.Label, m, old, new)
            /\ MovedOrDropped(b.Id, tree.Id, m, old, new)
            /\ MovedOrDropped(b.Span, tree.Span, m, old, new)
            /\ MovedOrDropped(b.Head, tree.Head, m, old, new)
            /\ MovedOrDropped(b.HeadLeaf, tree.HeadLeaf, m, old, new)

\* C19: after ParseTree.Topsort each of the five arrays is empty or has the
\* new NumNodes entries; a Label, Id, Span or Head that had the old NumNodes
\* entries has the entry of every kept old node o at map[o]; a HeadLeaf of
\* that length has at map[o] the image under the map of the old entry of o;
\* an array of any other length is empty.
C19_ArraysCarried ==
    did("Topsort") =>
        LET b == tlast.before
            m == tlast.oldToNew
            old == TNumNodes(b.Topology)
            new == TNumNodes(tree.Topology)
        IN  /\ MovedOrDropped(b.Label, tree.Label, m, old, new)
            /\ MovedOrDropped(b.Id, tree.Id, m, old, new)
            /\ MovedOrDropped(b.Span, tree.Span, m, old, new)
            /\ MovedOrDropped(b.Head, tree.Head, m, old, new)
            /\ tree.HeadLeaf = <<>> \/ Len(tree.HeadLeaf) = new
            /\ IF Len(b.HeadLeaf) = old
               THEN Moved(Image(m, b.HeadLeaf), tree.HeadLeaf, m, new)
               ELSE tree.HeadLeaf = <<>>

\* a Topsort that gives a kept node a new id and carries Label, Head and
\* HeadLeaf while Id and Span were never filled
C19_Witness ==
    /\ did("Topsort")
    /\ TNumNodes(tree.Topology) >= 2
    /\ \E o \in 1..Len(tlast.oldToNew) : tlast.oldToNew[o] \notin {o - 1, NoNodeId}
    /\ Len(tree.Label) = TNumNodes(tree.Topology)
    /\ Len(tree.HeadLeaf) = TNumNodes(tree.Topology)
    /\ Len(tree.Head) = TNumNodes(tree.Topology)
    /\ tree.Id = <<>>
    /\ tree.Span = <<>>

\* a Topsort after AddNode: the arrays had an entry for every node but the
\* new one and are empty afterwards
C19_ShortWitness ==
    /\ did("Topsort")
    /\ TNumNodes(tree.Topology) >= 2
    /\ Len(tlast.before.Label) = TNumNodes(tlast.before.Topology) - 1
    /\ Len(tlast.before.Span) = Len(tlast.before.Label)
    /\ tree.Label = <<>>
    /\ tree.Span = <<>>

\* a label up to its first '-' or '=', all of it when it has none
CutAt(label) ==
    IF \E i \in 1..Len(label) : label[i] \in {"-", "="}
    THEN SubSeq(label, 1,
                Min({i \in 1..Len(label) : label[i] \in {"-", "="}}) - 1)
    ELSE label

\* C20: StripAnnotation leaves the Topology and everything but Label as it
\* was and keeps one label for each node; the label of a leaf is cut at its
\* first '-' or '=' when it begins with '*' and stays otherwise; the label of
\* a node with children is cut at its first '-' or '=' unless it begins with
\* '-', when it stays.
C20_StripAnnotation ==
    did("StripAnnotation") =>
        LET b == tlast.before
        IN  /\ tree = [b EXCEPT !.Label = tree.Label]
            /\ Len(tree.Label) = Len(b.Label)
            /\ \A n \in TNodes(b.Topology) :
                  tree.Label[n + 1] =
                     IF IsLeaf(b.Topology, n)
                     THEN (IF b.Label[n + 1][1] = "*"
                           THEN CutAt(b.Label[n + 1]) ELSE b.Label[n + 1])
                     ELSE (IF b.Label[n + 1][1] = "-"
                           THEN b.Label[n + 1] ELSE CutAt(b.Label[n + 1]))

\* StripAnnotation on a tree of three nodes that cuts the label of an
\* internal node at '=' in front of a '-', keeps a '-' label and cuts a '*'
\* leaf
C20_Witness ==
    /\ did("StripAnnotation")
    /\ TNumNodes(tree.Topology) = 3
    /\ tlast.before.Label
          = <<(<<"N", "=", "N", "-", "N">>), (<<"-", "N", "-">>),
              (<<"*", "N", "-", "N">>)>>
    /\ tree.Label = <<(<<"N">>), (<<"-", "N", "-">>), (<<"*", "N">>)>>

(***************************************************************************)
(* The removal of empty categories, stated over the tree under Root.       *)
(***************************************************************************)
\* the node is labelled -NONE-, or has children and all of them fall
RECURSIVE Falls(_, _)
Falls(T, n) ==
    \/ T.Label[n + 1] = NONE
    \/ /\ T.Topology.Children[n + 1] # <<>>
       /\ \A c \in KidsOf(T.Topology, n) : Falls(T, c)

\* the nodes under Root that fall or are under a node that falls
Removed(T) ==
    {n \in Reachable(T.Topology) :
        \E a \in Reachable(T.Topology) :
           Falls(T, a) /\ n \in Closure(T.Topology, {a})}

\* the other nodes under Root, in pre-order
Survivors(T) ==
    IF T.Topology.Root = NoNodeId THEN <<>>
    ELSE SelectSeq(PreOrder(T.Topology, T.Topology.Root),
                   LAMBDA n : n \notin Removed(T))

\* C21: RemoveNone on a tree with a label for every node removes, of the
\* nodes under Root, exactly those labelled -NONE-, those under them and
\* every node with children whose children are all removed; the nodes that
\* stay are numbered in pre-order, keep their labels and their remaining
\* children in the old order; no label of the result is -NONE-, a node that
\* had children has one left, and Root is NoNodeId when no node stays.  On a
\* tree without a HeadLeaf array RemoveNone returns.
C21_RemoveNone ==
    (/\ tlast.name = "RemoveNone"
     /\ Len(tlast.before.Label) = TNumNodes(tlast.before.Topology)) =>
        LET b == tlast.before
            s == Survivors(b)
            kept(o) == SelectSeq(b.Topology.Children[o + 1],
                                 LAMBDA c : c \notin Removed(b))
        IN  /\ b.HeadLeaf = <<>> => ~tlast.panic
            /\ ~tlast.panic =>
                  /\ TNumNodes(tree.Topology) = Len(s)
                  /\ Len(tree.Label) = Len(s)
                  /\ tree.Topology.Root = (IF s = <<>> THEN NoNodeId ELSE 0)
                  /\ s # <<>> =>
                        PreOrder(tree.Topology, 0) = [n \in 1..Len(s) |-> n - 1]
                  /\ \A n \in 1..Len(s) :
                        /\ tree.Label[n] = b.Label[s[n] + 1]
                        /\ tree.Label[n] # NONE
                        /\ tree.Topology.Children[n]
                              = [k \in 1..Len(kept(s[n])) |->
                                   PosIn(s, kept(s[n])[k]) - 1]
                        /\ b.Topology.Children[s[n] + 1] # <<>> =>
                              tree.Topology.Children[n] # <<>>

\* RemoveNone on (a (a (-NONE- a)) (a a)): the -NONE- node, the leaf under
\* it and the node above it go, three nodes stay
C21_Witness ==
    /\ did("RemoveNone")
    /\ hist = <<"RemoveNone">>
    /\ tlast.before.Topology.Children
          = <<(<<1, 4>>), (<<2>>), (<<3>>), (<<>>), (<<5>>), (<<>>)>>
    /\ tlast.before.Label[3] = NONE
    /\ NONE \notin Range(tree.Label)
    /\ tree.Topology = [Root |-> 0, Children |-> <<(<<1>>), (<<2>>), (<<>>)>>]

(***************************************************************************)
(* The parser on a byte source that fails, and its tokenizer.              *)
(***************************************************************************)
\* the last Parser.Next ran out of tokens: what the grammar expected next
\* was asked of a byte source that had only its error left
metEnd == called /\ FailPos(Before) = Len(Before) + 1

StructuralErrors == {NoOpenParen, NoCategory, NoWordOrOpenParen, NoCloseParen}

\* C22 as stated: a fault of the byte source met anywhere in a Parser.Next
\* call is the error the call returns.
C22_FaultPassesThrough ==
    (metEnd /\ pre.end = IOFault) => ret.err = IOFault

\* C22: the fault of the byte source is returned as it is exactly when it is
\* met in front of the first token of the call; met after a token of the
\* unit was read, it is replaced by the structural error that names what the
\* grammar expected there, the same error and parser state the call ends
\* with when the bytes end cleanly at that place.
C22_FaultOnlyAtFirstToken ==
    (called /\ pre.end = IOFault) =>
        LET ts == Before
        IN  /\ ts = <<>> => (ret.err = IOFault /\ ret.tree.nil)
            /\ ts # <<>> => ret.err # IOFault
            /\ (ts # <<>> /\ metEnd) =>
                  /\ ret.err = RefError(ts)
                  /\ ret.err \in StructuralErrors
                  /\ ret.tree.nil
                  /\ \E r \in {ParserNext([pre EXCEPT !.end = EOF])} :
                        /\ r.err = ret.err
                        /\ r.p.pos = p.pos
                        /\ r.p.peek = p.peek

\* the byte source failed after "((a" was read: the call returned
\* NoWordOrOpenParen
C22_Witness ==
    /\ called
    /\ pre.end = IOFault
    /\ Before = <<TOpen, TOpen, (<<"a">>)>>
    /\ metEnd
    /\ ret.err = NoWordOrOpenParen

\* what the first n nextToken calls on the Parser q return when nothing
\* comes between them
RECURSIVE NextTokens(_, _)
NextTokens(q, n) ==
    IF n = 0 THEN <<>>
    ELSE LET r == nextToken(q)
         IN  <<[token |-> r.token, kind |-> r.kind, err |-> r.err]>>
             \o NextTokens(r.p, n - 1)

\* the token the Parser holds as its lookahead
Held(q) == [token |-> q.token, kind |-> q.kind, err |-> q.err]

\* C23: a peekToken that follows a peekToken returns the same token, kind
\* and error and leaves the Parser and its byte source as they were; a
\* peekToken leaves its result as the lookahead; the nextToken that follows
\* a peekToken returns that token, kind and error, reads no byte and clears
\* the lookahead; what the nextToken calls have returned is what they
\* return with no peekToken between them.
C23_Lookahead ==
    /\ (tk.name = "peekToken" /\ tk.prevname = "peekToken") =>
          /\ tk.res = tk.prev
          /\ p = tk.before
    /\ tk.name = "peekToken" => (p.peek /\ Held(p) = tk.res)
    /\ (tk.name = "nextToken" /\ tk.prevname = "peekToken") =>
          /\ tk.res = tk.prev
          /\ p.pos = tk.before.pos
          /\ p = [tk.before EXCEPT !.peek = FALSE]
    /\ tk.name = "nextToken" => ~p.peek
    /\ delivered = NextTokens(NewParser(p.in, p.end), Len(delivered))

\* a nextToken returned the word that MaxPeeks peekToken calls had shown
\* after the first token was read
C23_Witness ==
    /\ tk.name = "nextToken"
    /\ tk.prevname = "peekToken"
    /\ tk.before.peek
    /\ tk.res.kind = kWord
    /\ tk.res.err = ErrNil
    /\ Len(delivered) = 2
    /\ delivered[1].kind = kOpen

\* the third peekToken in a row, at the end of the byte source
C23_PeeksWitness ==
    /\ tk.name = "peekToken"
    /\ tk.run = MaxPeeks
    /\ tk.res.err = IOFault
    /\ Len(delivered) = 1

\* the bytes of a string that are no white space, in order
Inked(in) == SelectSeq(in, LAMBDA c : c \notin Space)

\* C26: the nextToken calls return, in input order, the tokens of the byte
\* string: every parenthesis as an Open or Close token of its own, every
\* maximal run of bytes that are neither white space nor parentheses as one
\* Word token, none of them with an error and none holding white space;
\* once all are returned, nextToken returns the error of the byte source
\* and no token; together the tokens are the bytes without the white space.
C26_Tokens ==
    LET ref == RefTokens(p.in)
    IN  /\ Len(delivered) <= Len(ref) + 1
        /\ \A i \in 1..Len(delivered) :
              IF i <= Len(ref)
              THEN /\ delivered[i].err = ErrNil
                   /\ delivered[i].token = ref[i]
                   /\ delivered[i].kind = KindOf(ref[i])
                   /\ Range(delivered[i].token) \cap Space = {}
                   /\ delivered[i].kind = kOpen <=> delivered[i].token = <<"(">>
                   /\ delivered[i].kind = kClose <=> delivered[i].token = <<")">>
                   /\ delivered[i].kind = kWord =>
                         /\ Range(delivered[i].token) \cap Paren = {}
                         /\ delivered[i].token # <<>>
              ELSE /\ delivered[i].err = p.end
                   /\ delivered[i].token = <<>>
        /\ Len(delivered) = Len(ref) + 1 =>
              Flatten([i \in 1..Len(ref) |-> delivered[i].token]) = Inked(p.in)

\* "a)", a tab, "a": the word ended by the parenthesis, the parenthesis, the
\* word ended by the end of the bytes, then io.EOF
C26_Witness ==
    /\ p.in = <<"a", ")", "\t", "a">>
    /\ Len(delivered) = 4
    /\ delivered[1] = [token |-> <<"a">>, kind |-> kWord, err |-> ErrNil]
    /\ delivered[2] = [token |-> <<")">>, kind |-> kClose, err |-> ErrNil]
    /\ delivered[3] = [token |-> <<"a">>, kind |-> kWord, err |-> ErrNil]
    /\ delivered[4].err = EOF

(***************************************************************************)
(* Disconnect applied twice.                                               *)
(***************************************************************************)
\* C24: a Disconnect that follows a Disconnect with the same flags leaves
\* Root and every children list as they are.
C24_DisconnectIdempotent ==
    [][(top.name = "Disconnect" /\ top'.name = "DisconnectAgain")
          => topo' = topo]_vars

\* Disconnect was applied twice to a topology whose Root was flagged and
\* where a list lost two children, one of them listed twice
C24_Witness ==
    /\ top.name = "DisconnectAgain"
    /\ told.Root # NoNodeId
    /\ topo.Root = NoNodeId
    /\ \E n \in TNodes(told) :
          /\ Len(told.Children[n + 1]) = 3
          /\ Len(topo.Children[n + 1]) = 1
          /\ Cardinality(KidsOf(told, n)) = 2

(***************************************************************************)
(* The priorities of a HeadRule.                                           *)
(***************************************************************************)
\* the rule FindHead looked up for the parent, when NewHeadRule made it
MadeRules ==
    {harg.finder.Table[l] : l \in DOMAIN harg.finder.Table \cap {harg.parent}}
    \cap {r \in HeadRules : r.Direction # UNKNOWN}

\* C25: in a rule made by NewHeadRule every label of match, the keys of
\* Priority, has a LabelPriority from 0 to len(Priority) - 1, and every
\* other label has the priority len(Priority).
C25_PriorityInRange ==
    (hret.done /\ ~hret.panic) =>
        \A rule \in MadeRules :
           \A l \in HeadLabels :
              IF l \in DOMAIN rule.Priority
              THEN LabelPriority(rule, l) \in 0..(MapLen(rule.Priority) - 1)
              ELSE LabelPriority(rule, l) = MapLen(rule.Priority)

\* FindHead was called with a rule whose match names a label twice: the
\* label has the priority of a label that is not listed
C25_RepeatedLabel ==
    /\ hret.done
    /\ ~hret.panic
    /\ \E rule \in MadeRules :
          \E l \in DOMAIN rule.Priority, u \in HeadLabels \ DOMAIN rule.Priority :
             LabelPriority(rule, l) = LabelPriority(rule, u)

(***************************************************************************)
(* The termination of Components.                                          *)
(***************************************************************************)
\* C27: every Components call on a forest returns: each find reaches its
\* representative and leaves its second loop.
C27_ComponentsTerminates == <>(cc.pc = "done")

\* the second loop of find has gone round with n where it was: n is not r
\* and p[n] is r already
C27_Spinning ==
    /\ cc.pc = "find2"
    /\ cc.n # cc.r
    /\ cc.p[cc.n + 1] = cc.r
    /\ cc.spins = 1
    /\ otopo.parent = <<NoNodeId, 0, 1>>

(***************************************************************************)
(* The head leaves across Disconnect, Topsort and RemoveNone.              *)
(***************************************************************************)
\* the last two operations were both RemoveNone
RemovedTwice ==
    /\ Len(hist) >= 2
    /\ hist[Len(hist)] = "RemoveNone"
    /\ hist[Len(hist) - 1] = "RemoveNone"

\* every entry of the HeadLeaf array of tree t is a node of t
HeadLeavesValid(t) ==
    \A i \in 1..Len(t.HeadLeaf) : t.HeadLeaf[i] \in TNodes(t.Topology)

\* C28: after any operations on a parsed tree the entries of a HeadLeaf
\* array that is kept are nodes of the tree, a Topsort or a RemoveNone
\* completes, and a second RemoveNone in a row leaves the tree as the first
\* one made it.
C28_HeadLeafStaysValid ==
    /\ ~tlast.panic => HeadLeavesValid(tree)
    /\ (hist # <<>> /\ Last(hist) \in {"Topsort", "RemoveNone"})
          => ~tlast.panic
    /\ RemovedTwice => tree = tlast.before

\* heads and head leaves were filled in the tree of ((a (a a) (-NONE- a))) and
\* RemoveNone returned a tree in which the head leaf of the root is no node
C28_LostHeadLeaf ==
    /\ hist = <<"Fill", "RemoveNone">>
    /\ tcut.Label = <<(<<"a">>), (<<"a">>), (<<"a">>), NONE, (<<"a">>)>>
    /\ ~tlast.panic
    /\ TNumNodes(tree.Topology) > 0
    /\ Len(tree.HeadLeaf) = TNumNodes(tree.Topology)
    /\ tree.HeadLeaf[1] = NoNodeId

\* the second RemoveNone in a row panicked
C28_SecondRemoveNonePanics ==
    /\ hist = <<"Fill", "RemoveNone", "RemoveNone">>
    /\ tlast.panic
    /\ ~HeadLeavesValid(tlast.before)

(***************************************************************************)
(* Where a successful Parser.Next leaves the byte source.                  *)
(***************************************************************************)
\* the bytes of in used up when k more tokens are read after the first pos
RECURSIVE RefAfter(_, _, _)
RefAfter(in, pos, k) ==
    IF k = 0 THEN pos
    ELSE LET i == SkipWhile(in, pos + 1, Space)
         IN IF i > Len(in) THEN Len(in)
            ELSE IF in[i] \in Paren THEN RefAfter(in, i, k - 1)
            ELSE RefAfter(in, Min({j \in i..Len(in) :
                                     j = Len(in) \/ in[j + 1] \in Delim}),
                          k - 1)

\* the tokens of Before that the last Parser.Next call had to read from the
\* byte source to take n tokens
FromSource(n) == IF pre.peek /\ pre.err = ErrNil THEN n - 1 ELSE n

\* C29: when Parser.Next returns without error no token is held as
\* lookahead and the byte source stands right after the closing parenthesis
\* that ends the unit in front of the call: the tokens left are those after
\* the unit.
C29_NextConsumesOneUnit ==
    (called /\ ret.err = ErrNil) =>
        LET k == UnitLen(Before)
        IN /\ k > 0
           /\ ~p.peek
           /\ p.pos = RefAfter(pre.in, pre.pos, FromSource(k))
           /\ p.pos \in 1..Len(p.in)
           /\ p.in[p.pos] = ")"
           /\ Pending(p) = SubSeq(Before, k + 1, Len(Before))

\* C29 witness: the second call returned a tree and bytes of a third unit
\* are left in the source, the first of them right behind the parenthesis
C29_Witness ==
    /\ called
    /\ calls = 2
    /\ ret.err = ErrNil
    /\ ~ret.tree.nil
    /\ NumNodes(ret.tree.Topology) >= 2
    /\ p.pos < Len(p.in)
    /\ p.in[p.pos + 1] = "("
    /\ Pending(p) # <<>>

(***************************************************************************)
(* The labels StripAnnotation leaves.                                      *)
(***************************************************************************)
\* the tree t as Parser.Next returns it
Plain(t) ==
    [nil |-> FALSE,
     Topology |-> [root |-> t.Topology.Root, children |-> t.Topology.Children],
     Label |-> t.Label]

\* StripAnnotation was the one operation on the parsed tree
Stripped1 == did("StripAnnotation") /\ hist = <<"StripAnnotation">>

\* the text of the tree parses back to its topology and labels
GoesRound(t) ==
    LET r == ParseString(String(Plain(t)))
    IN /\ r.err = ErrNil
       /\ ~r.tree.nil
       /\ Equal(Topo(r.tree.Topology), t.Topology)
       /\ r.tree.Label = t.Label

\* C30: StripAnnotation on a parsed tree leaves no label empty, so that
\* RemapByLabel with a new map does not panic on the stripped tree and the
\* text of the stripped tree parses back to the same tree.
C30_StripLeavesNoEmptyLabel ==
    Stripped1 =>
        /\ \A i \in 1..Len(tree.Label) : tree.Label[i] # <<>>
        /\ ~RemapByLabel(tree, New, "m").panic
        /\ GoesRound(tree)

\* the tree of ((=N N)) was stripped: the label of its root is empty
C30_EmptyLabel ==
    /\ Stripped1
    /\ tlast.before.Label = <<(<<"=", "N">>), (<<"N">>)>>
    /\ tree.Label = <<(<<>>), (<<"N">>)>>
    /\ RemapByLabel(tree, New, "m").panic
    /\ ParseString(String(Plain(tree))).err = NoWordOrOpenParen

====
